---- MODULE Spec2Model ----
(***************************************************************************)
(* State-machine model of the hardware acquisition layer of rng_cli_linux. *)
(*                                                                         *)
(*   Spec    package truerng: ReadBitsWithMode, CollectBitsAtIntervalWith- *)
(*           Mode and CollectBitsAtIntervalWithReconnect over a serial     *)
(*           port whose discovery, open, flush and read results are the    *)
(*           environment's choice.                                         *)
(*   SpecBB  package bbusb (Linux): OpenBitBabbler over a USB device whose *)
(*           answers to every request are the environment's choice.        *)
(***************************************************************************)
EXTENDS Integers, Sequences, FiniteSets, TLC

VARIABLES
    prog,               \* the API function being executed
    mode,               \* argument mode (a CaptureMode)
    bitCount,           \* argument bitCount
    interval,           \* argument interval (seconds; sign is what matters)
    onBatch,            \* argument onBatch: "nil" or "func"
    pc,                 \* position in the function
    ret,                \* the returned error kind ("none" while running)
    data,               \* the slice returned by ReadBitsWithMode (<<>> is nil)
    cancelled,          \* ctx.Done() is closed
    portName,           \* portName / currentPortName
    port,               \* the port variable: "nil", "open" or "closed" session
    buf,                \* buf of the current sample
    total,              \* total bytes of the current sample read so far
    readAttempts,       \* readAttempts (reconnect loop)
    readSuccessful,     \* readSuccessful (reconnect loop)
    consecutiveErrors,  \* consecutiveErrors (reconnect loop)
    zeroReads,          \* zero-byte reads of the current sample (reconnect loop)
    acquired,           \* number of sample reads completed so far
    delivered,          \* acquisition numbers handed to onBatch, in call order
    hist                \* observations of the run (not program state)

trVars == <<prog, mode, bitCount, interval, onBatch, pc, ret, data, cancelled,
            portName, port, buf, total, readAttempts, readSuccessful,
            consecutiveErrors, zeroReads, acquired, delivered, hist>>

VARIABLES
    bbPc,               \* position in OpenBitBabbler
    bitrate,            \* argument bitrate
    latencyMs,          \* argument latencyMs
    res,                \* per USB resource: acquired, and how often closed
    session,            \* the *DeviceSession returned: "none" yet, "nil" or "s"
    bbErr,              \* the error returned ("none" yet, "nil" or its kind)
    loopI,              \* i of the running purgeRead / checkSync loop
    syncPass,           \* 1: first try of the probe pair, 2: the retry
    syncCmd,            \* the probe of the running checkSync
    syncBuf,            \* <<buf[2], buf[3]>> of the running checkSync
    clkDiv,             \* the divisor programmed (-1: none yet)
    bbHist              \* observations of the run (not program state)

bbVars == <<bbPc, bitrate, latencyMs, res, session, bbErr, loopI, syncPass,
            syncCmd, syncBuf, clkDiv, bbHist>>

\* DeviceSession.ReadRandom (package bbusb, both builds)
VARIABLES
    rrImpl,             \* the build: "linux" (gousb) or "serial" (!linux)
    rrPc,               \* position in ReadRandom
    rrBuf,              \* the caller's buf
    maxPacket,          \* s.maxPacket (Linux)
    want,               \* want (Linux): len(buf)
    got,                \* got (Linux) / total (serial)
    rrCmd,              \* the two length bytes of the MPSSE read command
    rrStream,           \* payload bytes the device has sent so far
    deadlinePassed,     \* time.Now().After(deadline) (serial)
    rrN,                \* the count returned (-1: not returned yet)
    rrErr,              \* the error returned ("none" yet, "nil" or its kind)
    rrHist              \* observations of the run (not program state)

rrVars == <<rrImpl, rrPc, rrBuf, maxPacket, want, got, rrCmd, rrStream,
            deadlinePassed, rrN, rrErr, rrHist>>

\* The mode table and device discovery (packages truerng and bbusb)
VARIABLES
    dFn,                \* the function applied
    capMode,            \* the CaptureMode GetBaudRate is called on
    portArg,            \* the *enumerator.PortDetails given to getTrueRNGModel
    sysPorts,           \* what enumerator.GetDetailedPortsList() returns
    enumFails,          \* ... or the error it returns instead
    goos,               \* the build of package bbusb: "linux" or "other"
    usbDevs,            \* the 0403:7840 devices libusb lists (linux build), in
                        \* bus order: "opens" or "fails" for each
    enumPc,             \* "body" while a call of EnumerateDevices is running
    enumDevices,        \* its local list: `devices` (`out` in the linux build)
    dRes                \* the values returned so far

dVars == <<dFn, capMode, portArg, sysPorts, enumFails, goos, usbDevs, enumPc,
           enumDevices, dRes>>

\* The MPSSE read command of DeviceSession.ReadRandom (Linux), for buffers of
\* any length
VARIABLES
    lcLen,              \* len(buf)
    lcCmd,              \* the two length bytes of cmd (<<>>: not built yet)
    lcWant              \* want

lcVars == <<lcLen, lcCmd, lcWant>>

\* changeMode (package truerng): the knock sequence
VARIABLES
    cmPc,               \* position in changeMode
    cmMode,             \* argument mode
    cmBaud,             \* baudRate
    cmI,                \* index into sequences of the running loop pass
    cmPort,             \* port: "nil", "open" or "closed"
    cmErr,              \* the error returned ("none" yet, "nil" or its kind)
    cmHist              \* observations of the run (not program state)

cmVars == <<cmPc, cmMode, cmBaud, cmI, cmPort, cmErr, cmHist>>

\* The BitBabbler sampler: func main of cmd/bb
VARIABLES
    smPc,               \* position in main
    smBits,             \* *bits
    smByteCount,        \* byteCount
    smBuf,              \* buf of the running iteration
    smN,                \* n returned by session.ReadRandom
    smCancelled,        \* ctx.Done() is closed (os.Interrupt)
    smExit,             \* how main ended: "none" yet, "fatal", "return", "panic"
    smOut,              \* the buffers printed so far, as buf[:n]
    smHist              \* observations of the run (not program state)

smVars == <<smPc, smBits, smByteCount, smBuf, smN, smCancelled, smExit, smOut,
            smHist>>

\* Everything that is not state of the collection functions of package truerng.
notTr == <<bbVars, rrVars, dVars, lcVars, smVars, cmVars>>

\* Everything that is not state of OpenBitBabbler.
notBB == <<trVars, rrVars, dVars, lcVars, smVars, cmVars>>

\* Everything that is not state of ReadRandom.
notRR == <<trVars, bbVars, dVars, lcVars, smVars, cmVars>>

\* Everything that is not state of the mode table and discovery.
notD == <<trVars, bbVars, rrVars, lcVars, smVars, cmVars>>

\* Everything that is not state of the MPSSE read command.
notLC == <<trVars, bbVars, rrVars, dVars, smVars, cmVars>>

\* Everything that is not state of the sampler.
notSM == <<trVars, bbVars, rrVars, dVars, lcVars, cmVars>>

\* Everything that is not state of changeMode.
notCM == <<trVars, bbVars, rrVars, dVars, lcVars, smVars>>

vars == <<trVars, bbVars, rrVars, dVars, lcVars, smVars, cmVars>>

-----------------------------------------------------------------------------
(* Bounds of the model *)

MaxBits == 17        \* bitCount ranges over -1..MaxBits
MaxChunk == 2        \* most bytes one port.Read call returns
MaxSamples == 2      \* ticks taken after this many deliveries are not explored
MaxZeroReads == 2    \* zero-byte reads explored per sample in the reconnect loop
MaxErrRun == 3       \* longest run of consecutive non-disconnect read errors explored

\* Byte values the device sends: 0xA5 and 0xFF.
ByteVals == {165, 255}

BitCounts == -1..MaxBits
Intervals == {-1, 0, 2}
Ports == {"/dev/ttyACM0", "/dev/ttyACM1"}

\* FindPort either fails or yields the port of the first enumerated device.
NotFound == "TrueRNG device not found"
FindPortResults == Ports \cup {NotFound}

\* What a failing port.Read reports: which of the fragments "closed" and
\* "broken pipe" its message contains.
ReadErrors == { [closed |-> TRUE,  brokenPipe |-> FALSE],
                [closed |-> FALSE, brokenPipe |-> TRUE],
                [closed |-> FALSE, brokenPipe |-> FALSE] }

\* Message of a read on a port that has been closed.
PortClosedError == [closed |-> TRUE, brokenPipe |-> FALSE]

RB == "ReadBitsWithMode"
CS == "CollectBitsAtIntervalWithMode"
CR == "CollectBitsAtIntervalWithReconnect"

-----------------------------------------------------------------------------
(* Go arithmetic and the bit framing *)

\* Go's integer division truncates toward zero.
GoDiv(a, b) == IF a >= 0 THEN a \div b ELSE -((-a) \div b)

\* Go's % takes the sign of the dividend.
GoMod(a, b) == a - b * GoDiv(a, b)

RECURSIVE Pow2(_)
Pow2(n) == IF n <= 0 THEN 1 ELSE 2 * Pow2(n - 1)

\* a & b on w-bit values.
RECURSIVE BitAnd(_, _, _)
BitAnd(a, b, w) ==
    IF w = 0 THEN 0
    ELSE (a % 2) * (b % 2) + 2 * BitAnd(a \div 2, b \div 2, w - 1)

\* Mutant: the byte count rounded down.
ByteCountOf_RoundedDown(bits) == GoDiv(bits, 8)

\* byteCount := (bitCount + 7) / 8
ByteCountOf(bits) == GoDiv(bits + 7, 8)

\* extraBits := (8 - (bitCount % 8)) % 8
ExtraBitsOf(bits) == GoMod(8 - GoMod(bits, 8), 8)

\* Mutant: the mask shifted the other way.
MaskOf_ShiftedRight(extraBits) == 255 \div Pow2(extraBits)

\* byte(0xFF << extraBits)
MaskOf(extraBits) == (255 * Pow2(extraBits)) % 256

\* Mutant: the mask is applied to the first byte.
MaskTrailingBits_FirstByte(b, bits) ==
    IF ExtraBitsOf(bits) # 0
    THEN [b EXCEPT ![1] = BitAnd(@, MaskOf(ExtraBitsOf(bits)), 8)]
    ELSE b

\* if extraBits != 0 { buf[len(buf)-1] &= byte(0xFF << extraBits) }
MaskTrailingBits(b, bits) ==
    IF ExtraBitsOf(bits) # 0
    THEN [b EXCEPT ![Len(b)] = BitAnd(@, MaskOf(ExtraBitsOf(bits)), 8)]
    ELSE b

\* make([]byte, n)
MakeBuf(n) == [i \in 1..n |-> 0]

\* The chunks one port.Read(buf[total:]) call can store: at most the room left.
Chunks(room) ==
    UNION { [1..n -> ByteVals] : n \in 0..(IF room < MaxChunk THEN room ELSE MaxChunk) }

\* buf after port.Read(buf[total:]) stored chunk at offset total.
StoreAt(b, t, chunk) ==
    [i \in 1..Len(b) |-> IF i > t /\ i <= t + Len(chunk) THEN chunk[i - t] ELSE b[i]]

\* Mutant: a zero interval is let through.
InvalidCollectArgs_ZeroInterval(bits, ival, cb) == bits <= 0 \/ ival < 0 \/ cb = "nil"

\* The argument checks shared by the two collection functions.
InvalidCollectArgs(bits, ival, cb) == bits <= 0 \/ ival <= 0 \/ cb = "nil"

\* strings.Contains(err.Error(), "closed") || strings.Contains(err.Error(), "broken pipe")
IsDisconnectError(err) == err.closed \/ err.brokenPipe

\* Mutant: only a lost port counts as a failed read.
ReadFailed_OnlyNil(ok, p) == p = "nil"

\* if !readSuccessful || port == nil
ReadFailed(ok, p) == ~ok \/ p = "nil"

\* Mutant: the port variable keeps the closed session.
PortAfterDisconnect_NotNil == "closed"

\* port.Close(); port = nil: what the port variable holds after a disconnect error
PortAfterDisconnect == "nil"

\* Mutant: a sample counts as read once any byte has arrived.
SampleComplete_AnyByte(t, n) == t > 0

\* if total >= byteCount { readSuccessful = true }
SampleComplete(t, n) == t >= n

\* maxConsecutiveErrors := 3
maxConsecutiveErrors == 3

\* if consecutiveErrors >= maxConsecutiveErrors
TooManyErrors(n) == n >= maxConsecutiveErrors

\* maxReadAttempts := 30
maxReadAttempts == 30

-----------------------------------------------------------------------------
(* The capture modes *)

DefinedModes ==
    {"MODE_NORMAL", "MODE_PSDEBUG", "MODE_RNGDEBUG", "MODE_RNG1WHITE",
     "MODE_RNG2WHITE", "MODE_RAW_BIN", "MODE_RAW_ASC", "MODE_UNWHITENED",
     "MODE_NORMAL_ASC", "MODE_NORMAL_ASC_SLOW"}

\* CaptureMode is a string type: any string can be converted to it.
CaptureModes == DefinedModes \cup {"", "MODE_TURBO", "mode_normal"}

\* Mutant: two rows of the table swapped.
GetBaudRate_RowsSwapped(m) ==
    CASE m = "MODE_NORMAL"          -> 300
      [] m = "MODE_PSDEBUG"         -> 1200
      [] m = "MODE_RNGDEBUG"        -> 2400
      [] m = "MODE_RNG1WHITE"       -> 4800
      [] m = "MODE_RNG2WHITE"       -> 9600
      [] m = "MODE_RAW_BIN"         -> 38400
      [] m = "MODE_RAW_ASC"         -> 19200
      [] m = "MODE_UNWHITENED"      -> 57600
      [] m = "MODE_NORMAL_ASC"      -> 115200
      [] m = "MODE_NORMAL_ASC_SLOW" -> 230400
      [] OTHER                      -> 300

\* func (m CaptureMode) GetBaudRate() int
GetBaudRate(m) ==
    CASE m = "MODE_NORMAL"          -> 300
      [] m = "MODE_PSDEBUG"         -> 1200
      [] m = "MODE_RNGDEBUG"        -> 2400
      [] m = "MODE_RNG1WHITE"       -> 4800
      [] m = "MODE_RNG2WHITE"       -> 9600
      [] m = "MODE_RAW_BIN"         -> 19200
      [] m = "MODE_RAW_ASC"         -> 38400
      [] m = "MODE_UNWHITENED"      -> 57600
      [] m = "MODE_NORMAL_ASC"      -> 115200
      [] m = "MODE_NORMAL_ASC_SLOW" -> 230400
      [] OTHER                      -> 300

\* The mode arguments the read and collection functions are called with.
Modes == {"MODE_NORMAL", "MODE_RAW_BIN"}

\* Mutant: changeMode(portName, mode) is called before the port is opened.
KnockSequence_Enabled(m) == <<110, 300, 110, GetBaudRate(m)>>

\* BaudRate of the serial.Open calls made before the port is opened for
\* reading: none, the changeMode call is commented out.
KnockSequence(m) == <<>>

\* serialMode := &serial.Mode{Parity: serial.NoParity, StopBits: serial.OneStopBit}:
\* BaudRate is left at its zero value.
SerialModeBaud(m) == 0

-----------------------------------------------------------------------------
(* Observations *)

NoReconnect == [pending |-> FALSE, closes |-> 0, finds |-> 0, opens |-> 0,
                failed |-> FALSE, cb |-> FALSE]

\* Nothing has happened in the tick yet.
NoTick == [events |-> <<>>, found |-> "", opened |-> ""]

HistInit ==
    [ ioDone        |-> FALSE,    \* a discovery, open or read has been performed
      failSeen      |-> "none",   \* first failure the environment produced
      opAfterFail   |-> FALSE,    \* discovery/open/read/callback after failSeen
      cancelPc      |-> "none",   \* pc at which cancellation was signalled
      cancelK       |-> 0,        \* deliveries made when it was signalled
      ioAfterCancel |-> FALSE,    \* discovery/open/read after the signal
      cbAfterCancel |-> 0,        \* deliveries after the signal
      readEnd       |-> "none",   \* how the latest sample read ended
      openSess      |-> 0,        \* sessions currently open
      doubleClose   |-> FALSE,    \* some session was closed twice
      errRun        |-> 0,        \* consecutive non-disconnect read errors
      bauds         |-> {},       \* BaudRate of the serial.Open calls made
      sampleFailed  |-> FALSE,    \* some sample read ended short of the full count
      reopened      |-> FALSE,    \* a discovery or open after the initial connection
      tick          |-> NoTick,   \* per-tick loop: the events of the current tick
      zeroSeen      |-> FALSE,    \* one-shot read: some port.Read returned 0 bytes
      raw           |-> <<>>,     \* buf as it was read, while onBatch runs on it
      rc            |-> NoReconnect ]  \* since the latest disconnect error

\* A discovery, open or read call is made.
NoteIO(h) ==
    [h EXCEPT !.ioDone = TRUE,
              !.opAfterFail = @ \/ h.failSeen # "none",
              !.ioAfterCancel = @ \/ cancelled]

\* The environment makes a call fail.
NoteFail(h, kind) ==
    [h EXCEPT !.failSeen = IF @ = "none" THEN kind ELSE @]

\* serial.Open is called, after the opens of the knock sequence if any.
NoteSerialOpen(h) ==
    [h EXCEPT !.bauds = @ \cup {KnockSequence(mode)[i] : i \in 1..Len(KnockSequence(mode))}
                          \cup {SerialModeBaud(mode)}]

\* serial.Open succeeded.
NoteOpen(h) == [h EXCEPT !.openSess = @ + 1]

\* port.Close() on a session in state p.
NoteClose(h, p) ==
    [h EXCEPT !.openSess = IF p = "open" THEN @ - 1 ELSE @,
              !.doubleClose = @ \/ p = "closed"]

\* port.Close() on the session a failed read leaves behind.
NoteStaleClose(h, p) ==
    [NoteClose(h, p) EXCEPT !.rc = IF @.pending THEN [@ EXCEPT !.closes = @ + 1] ELSE @]

\* The read loop of a sample is over (reconnect loop).
NoteSampleEnd(h) == [h EXCEPT !.sampleFailed = @ \/ h.readEnd # "full"]

\* FindPort or connectToDevice is called in the reconnect block.
NoteReopen(h) == [h EXCEPT !.reopened = TRUE]

\* An event of the current tick of the per-tick loop; the port.Read calls of
\* one read loop count as one event.
NoteTick(h, e) ==
    [h EXCEPT !.tick.events =
        IF e = "read" /\ Len(@) > 0 /\ @[Len(@)] = "read" THEN @ ELSE Append(@, e)]

\* currentPortName, err := FindPort()
NoteTickFind(h, r) == [NoteTick(h, "find") EXCEPT !.tick.found = r]

\* serial.Open(currentPortName, serialMode)
NoteTickOpen(h, name) == [NoteTick(h, "open") EXCEPT !.tick.opened = name]

\* port.Read returned n bytes and no error (one-shot read).
NoteZeroRead(h, n) == [h EXCEPT !.zeroSeen = @ \/ n = 0]

\* buf is about to be masked and handed to onBatch; onBatch has returned.
NoteRaw(h, b) == [h EXCEPT !.raw = b]

\* onBatch is invoked.
NoteCallback(h) ==
    [h EXCEPT !.opAfterFail = @ \/ h.failSeen # "none",
              !.cbAfterCancel = IF cancelled THEN @ + 1 ELSE @,
              !.rc = IF @.pending THEN [@ EXCEPT !.cb = TRUE] ELSE @]

-----------------------------------------------------------------------------
(* package bbusb: constants and the state no OpenBitBabbler call has touched *)

Resources == {"ctx", "dev", "cfg", "intf"}

\* held: acquired and not closed; closes: Close calls on it; at: the rank of
\* its latest Close among all Close calls of the run.
NoResources == [r \in Resources |-> [held |-> FALSE, closes |-> 0, at |-> 0]]

BBHistInit ==
    [ syncStarted |-> FALSE,   \* the first probe has been sent
      acks        |-> {},      \* <<pass, probe>> answered by the expected echo
      probes      |-> 0,       \* checkSync calls made
      closeErrs   |-> {},      \* releases of DeviceSession.Close that failed
      purge       |-> "none" ] \* the latest purgeRead that returned: "empty" if
                               \* its last read gave 2 bytes or fewer, else "data"

BBIdle ==
    /\ bbPc = "idle"
    /\ bitrate = 0
    /\ latencyMs = 0
    /\ res = NoResources
    /\ session = "none"
    /\ bbErr = "none"
    /\ loopI = 0
    /\ syncPass = 0
    /\ syncCmd = 0
    /\ syncBuf = <<0, 0>>
    /\ clkDiv = -1
    /\ bbHist = BBHistInit

\* No function of package truerng has been called.
TrIdle ==
    /\ prog = "none"
    /\ mode = ""
    /\ bitCount = 0
    /\ interval = 0
    /\ onBatch = "nil"
    /\ pc = "done"
    /\ ret = "none"
    /\ data = <<>>
    /\ cancelled = FALSE
    /\ portName = ""
    /\ port = "nil"
    /\ buf = <<>>
    /\ total = 0
    /\ readAttempts = 0
    /\ readSuccessful = FALSE
    /\ consecutiveErrors = 0
    /\ zeroReads = 0
    /\ acquired = 0
    /\ delivered = <<>>
    /\ hist = HistInit

\* A nil *enumerator.PortDetails
NilPort == [nil |-> TRUE]

\* Nothing returned yet.
NoResults ==
    [ baud    |-> -1,
      model   |-> -1,
      detect  |-> [called |-> FALSE, present |-> FALSE, err |-> "nil"],
      devices |-> [called |-> FALSE, list |-> <<>>, err |-> "nil"],
      again   |-> [called |-> FALSE, list |-> <<>>, err |-> "nil"] ]

DIdle ==
    /\ dFn = "none"
    /\ capMode = ""
    /\ portArg = NilPort
    /\ sysPorts = <<>>
    /\ enumFails = FALSE
    /\ goos = "other"
    /\ usbDevs = <<>>
    /\ enumPc = "idle"
    /\ enumDevices = <<>>
    /\ dRes = NoResults

\* No MPSSE read command is being built.
LCIdle ==
    /\ lcLen = 0
    /\ lcCmd = <<>>
    /\ lcWant = 0

CMHistInit ==
    [ attempts |-> <<>>,    \* the baud rates serial.Open was called with, in order
      failedAt |-> 0,       \* which of those calls failed (0: none)
      open     |-> 0,       \* ports open now
      overlap  |-> FALSE ]  \* a port was opened while another was open

\* changeMode is not running.
CMIdle ==
    /\ cmPc = "idle"
    /\ cmMode = ""
    /\ cmBaud = 0
    /\ cmI = 0
    /\ cmPort = "nil"
    /\ cmErr = "none"
    /\ cmHist = CMHistInit

SMHistInit ==
    [ io      |-> FALSE,    \* a discovery, open or read has been attempted
      alloc   |-> FALSE,    \* make([]byte, byteCount) has been evaluated
      masked  |-> FALSE,    \* the mask statement has indexed buf
      raw     |-> <<>> ]    \* buf as ReadRandom left it, before the mask

\* The sampler is not running.
SMIdle ==
    /\ smPc = "idle"
    /\ smBits = 0
    /\ smByteCount = 0
    /\ smBuf = <<>>
    /\ smN = 0
    /\ smCancelled = FALSE
    /\ smExit = "none"
    /\ smOut = <<>>
    /\ smHist = SMHistInit

RRHistInit ==
    [ statusReads |-> 0,       \* parity of the reads that carried no payload
      timedOut    |-> FALSE,   \* the deadline ended the read loop
      m           |-> 0,       \* Linux: the length of the latest bulk read
      copies      |-> {} ]     \* Linux: the copy calls made on that read, as
                               \* [src, dst, len]: tmp[src : src+len] to
                               \* buf[dst : dst+len], indices as in the source

RRIdle ==
    /\ rrImpl = "none"
    /\ rrPc = "idle"
    /\ rrBuf = <<>>
    /\ maxPacket = 0
    /\ want = 0
    /\ got = 0
    /\ rrCmd = <<>>
    /\ rrStream = 0
    /\ deadlinePassed = FALSE
    /\ rrN = -1
    /\ rrErr = "none"
    /\ rrHist = RRHistInit

-----------------------------------------------------------------------------
(* Initial state: the call has been made, nothing has run yet *)

Init ==
    /\ prog \in {RB, CS, CR}
    /\ mode \in Modes
    /\ bitCount \in BitCounts
    /\ interval \in (IF prog = RB THEN {0} ELSE Intervals)
    /\ onBatch \in (IF prog = RB THEN {"nil"} ELSE {"nil", "func"})
    /\ pc = "start"
    /\ ret = "none"
    /\ data = <<>>
    /\ cancelled = FALSE
    /\ portName = ""
    /\ port = "nil"
    /\ buf = <<>>
    /\ total = 0
    /\ readAttempts = 0
    /\ readSuccessful = FALSE
    /\ consecutiveErrors = 0
    /\ zeroReads = 0
    /\ acquired = 0
    /\ delivered = <<>>
    /\ hist = HistInit
    /\ BBIdle
    /\ RRIdle
    /\ DIdle
    /\ LCIdle
    /\ SMIdle
    /\ CMIdle

\* return err: the function ends with error kind r.
Return(r) == pc' = "done" /\ ret' = r

-----------------------------------------------------------------------------
(* ReadBitsWithMode -> ReadBytesWithMode -> readBytesFromPort *)

ReadBitsWithMode_Start ==
    /\ prog = RB /\ pc = "start"
    /\ IF bitCount <= 0 \/ ByteCountOf(bitCount) <= 0
       THEN Return("errArg")
       ELSE pc' = "find" /\ ret' = ret
    /\ UNCHANGED <<prog, mode, bitCount, interval, onBatch, data, cancelled, portName,
                   port, buf, total, readAttempts, readSuccessful,
                   consecutiveErrors, zeroReads, acquired, delivered, hist>>
    /\ UNCHANGED notTr

ReadBytesWithMode_FindPort ==
    /\ prog = RB /\ pc = "find"
    /\ \E r \in FindPortResults :
         IF r = NotFound
         THEN /\ Return("errNotFound")
              /\ hist' = NoteFail(NoteIO(hist), "notFound")
              /\ UNCHANGED portName
         ELSE /\ pc' = "open" /\ ret' = ret
              /\ portName' = r
              /\ hist' = NoteIO(hist)
    /\ UNCHANGED <<prog, mode, bitCount, interval, onBatch, data, cancelled,
                   port, buf, total, readAttempts, readSuccessful,
                   consecutiveErrors, zeroReads, acquired, delivered>>
    /\ UNCHANGED notTr

\* serial.Open, SetDTR, SetReadTimeout, ResetInputBuffer (its error is ignored),
\* buf := make([]byte, blockSize).
readBytesFromPort_Open ==
    /\ prog = RB /\ pc = "open"
    /\ \E ok \in BOOLEAN :
         IF ~ok
         THEN /\ Return("errOpen")
              /\ hist' = NoteFail(NoteSerialOpen(NoteIO(hist)), "open")
              /\ UNCHANGED <<port, buf, total>>
         ELSE /\ pc' = "read" /\ ret' = ret
              /\ port' = "open"
              /\ buf' = MakeBuf(ByteCountOf(bitCount))
              /\ total' = 0
              /\ hist' = NoteOpen(NoteSerialOpen(NoteIO(hist)))
    /\ UNCHANGED <<prog, mode, bitCount, interval, onBatch, data, cancelled, portName,
                   readAttempts, readSuccessful, consecutiveErrors, zeroReads,
                   acquired, delivered>>
    /\ UNCHANGED notTr

\* Mutant: on timeout the bytes read so far are returned with the error.
readBytesFromPort_Read_PartialOnTimeout ==
    /\ prog = RB /\ pc = "read"
    /\ total < Len(buf)
    /\ \/ /\ Return("errTimeout")                       \* time.Now().After(deadline)
          /\ hist' = NoteClose(NoteFail([hist EXCEPT !.readEnd = "timeout"], "timeout"), port)
          /\ port' = "closed"
          /\ data' = buf
          /\ UNCHANGED <<buf, total, acquired>>
       \/ /\ Return("errRead")                          \* port.Read fails
          /\ hist' = NoteClose(NoteFail(NoteIO([hist EXCEPT !.readEnd = "error"]), "read"), port)
          /\ port' = "closed"
          /\ UNCHANGED <<buf, total, data, acquired>>
       \/ \E chunk \in Chunks(Len(buf) - total) :
            /\ buf' = StoreAt(buf, total, chunk)
            /\ total' = total + Len(chunk)
            /\ IF total' < Len(buf)
               THEN /\ hist' = NoteZeroRead(NoteIO(hist), Len(chunk))
                    /\ UNCHANGED <<pc, ret, port, data, acquired>>
               ELSE /\ Return("ok")
                    /\ port' = "closed"
                    /\ acquired' = acquired + 1
                    /\ data' = MaskTrailingBits(buf', bitCount)
                    /\ hist' = NoteClose(NoteIO([hist EXCEPT !.readEnd = "full"]), port)
    /\ UNCHANGED <<prog, mode, bitCount, interval, onBatch, cancelled, portName,
                   readAttempts, readSuccessful, consecutiveErrors, zeroReads,
                   delivered>>
    /\ UNCHANGED notTr

\* One pass of the read loop; every return runs the deferred port.Close().
\* On the pass that fills buf, readBytesFromPort returns it and
\* ReadBitsWithMode masks the trailing bits.
readBytesFromPort_Read ==
    /\ prog = RB /\ pc = "read"
    /\ total < Len(buf)
    /\ \/ /\ Return("errTimeout")                       \* time.Now().After(deadline)
          /\ hist' = NoteClose(NoteFail([hist EXCEPT !.readEnd = "timeout"], "timeout"), port)
          /\ port' = "closed"
          /\ UNCHANGED <<buf, total, data, acquired>>
       \/ /\ Return("errRead")                          \* port.Read fails
          /\ hist' = NoteClose(NoteFail(NoteIO([hist EXCEPT !.readEnd = "error"]), "read"), port)
          /\ port' = "closed"
          /\ UNCHANGED <<buf, total, data, acquired>>
       \/ \E chunk \in Chunks(Len(buf) - total) :
            /\ buf' = StoreAt(buf, total, chunk)
            /\ total' = total + Len(chunk)
            /\ IF total' < Len(buf)
               THEN /\ hist' = NoteZeroRead(NoteIO(hist), Len(chunk))
                    /\ UNCHANGED <<pc, ret, port, data, acquired>>
               ELSE /\ Return("ok")
                    /\ port' = "closed"
                    /\ acquired' = acquired + 1
                    /\ data' = MaskTrailingBits(buf', bitCount)
                    /\ hist' = NoteClose(NoteIO([hist EXCEPT !.readEnd = "full"]), port)
    /\ UNCHANGED <<prog, mode, bitCount, interval, onBatch, cancelled, portName,
                   readAttempts, readSuccessful, consecutiveErrors, zeroReads,
                   delivered>>
    /\ UNCHANGED notTr

-----------------------------------------------------------------------------
(* Cancellation of the caller's context (environment) *)

Cancel ==
    /\ prog \in {CS, CR} /\ pc # "done"
    /\ ~cancelled
    /\ cancelled' = TRUE
    /\ hist' = [hist EXCEPT !.cancelPc = pc, !.cancelK = Len(delivered)]
    /\ UNCHANGED <<prog, mode, bitCount, interval, onBatch, pc, ret, data, portName,
                   port, buf, total, readAttempts, readSuccessful,
                   consecutiveErrors, zeroReads, acquired, delivered>>
    /\ UNCHANGED notTr

-----------------------------------------------------------------------------
(* CollectBitsAtIntervalWithMode: a fresh port for every tick *)

CollectBitsAtIntervalWithMode_Start ==
    /\ prog = CS /\ pc = "start"
    /\ IF InvalidCollectArgs(bitCount, interval, onBatch)
       THEN Return("errArg")
       ELSE pc' = "ctxCheck" /\ ret' = ret
    /\ UNCHANGED <<prog, mode, bitCount, interval, onBatch, data, cancelled, portName,
                   port, buf, total, readAttempts, readSuccessful,
                   consecutiveErrors, zeroReads, acquired, delivered, hist>>
    /\ UNCHANGED notTr

\* Mutant: the loop top does not look at the context.
CollectBitsAtIntervalWithMode_CtxCheck_Skipped ==
    /\ prog = CS /\ pc = "ctxCheck"
    /\ pc' = "find"
    /\ UNCHANGED <<prog, mode, bitCount, interval, onBatch, ret, data, cancelled, portName,
                   port, buf, total, readAttempts, readSuccessful,
                   consecutiveErrors, zeroReads, acquired, delivered, hist>>
    /\ UNCHANGED notTr

\* select { case <-ctx.Done(): return ctx.Err(); default: }
CollectBitsAtIntervalWithMode_CtxCheck ==
    /\ prog = CS /\ pc = "ctxCheck"
    /\ IF cancelled
       THEN Return("ctxErr") /\ UNCHANGED hist
       ELSE pc' = "find" /\ ret' = ret /\ hist' = [hist EXCEPT !.tick = NoTick]
    /\ UNCHANGED <<prog, mode, bitCount, interval, onBatch, data, cancelled, portName,
                   port, buf, total, readAttempts, readSuccessful,
                   consecutiveErrors, zeroReads, acquired, delivered>>
    /\ UNCHANGED notTr

\* Mutant: a failed discovery is retried at the next pass of the loop.
CollectBitsAtIntervalWithMode_FindPort_Retry ==
    /\ prog = CS /\ pc = "find"
    /\ \E r \in FindPortResults :
         IF r = NotFound
         THEN /\ pc' = "ctxCheck"
              /\ hist' = NoteFail(NoteIO(hist), "notFound")
              /\ UNCHANGED portName
         ELSE /\ pc' = "open"
              /\ portName' = r
              /\ hist' = NoteIO(hist)
    /\ UNCHANGED <<prog, mode, bitCount, interval, onBatch, ret, data, cancelled,
                   port, buf, total, readAttempts, readSuccessful,
                   consecutiveErrors, zeroReads, acquired, delivered>>
    /\ UNCHANGED notTr

CollectBitsAtIntervalWithMode_FindPort ==
    /\ prog = CS /\ pc = "find"
    /\ \E r \in FindPortResults :
         IF r = NotFound
         THEN /\ Return("errNotFound")
              /\ hist' = NoteTickFind(NoteFail(NoteIO(hist), "notFound"), r)
              /\ UNCHANGED portName
         ELSE /\ pc' = "open" /\ ret' = ret
              /\ portName' = r
              /\ hist' = NoteTickFind(NoteIO(hist), r)
    /\ UNCHANGED <<prog, mode, bitCount, interval, onBatch, data, cancelled,
                   port, buf, total, readAttempts, readSuccessful,
                   consecutiveErrors, zeroReads, acquired, delivered>>
    /\ UNCHANGED notTr

\* serial.Open, SetDTR, SetReadTimeout, ResetInputBuffer: when the flush fails
\* the port is closed and the tick goes on; buf := make([]byte, byteCount).
CollectBitsAtIntervalWithMode_Open ==
    /\ prog = CS /\ pc = "open"
    /\ \E ok \in BOOLEAN, flushOk \in BOOLEAN :
         IF ~ok
         THEN /\ flushOk
              /\ Return("errOpen")
              /\ hist' = NoteTickOpen(NoteFail(NoteSerialOpen(NoteIO(hist)), "open"),
                                      portName)
              /\ UNCHANGED <<port, buf, total>>
         ELSE /\ pc' = "read" /\ ret' = ret
              /\ port' = IF flushOk THEN "open" ELSE "closed"
              /\ buf' = MakeBuf(ByteCountOf(bitCount))
              /\ total' = 0
              /\ hist' = LET h == NoteTickOpen(NoteOpen(NoteSerialOpen(NoteIO(hist))),
                                               portName)
                         IN  IF flushOk THEN h ELSE NoteTick(NoteClose(h, "open"), "close")
    /\ UNCHANGED <<prog, mode, bitCount, interval, onBatch, data, cancelled, portName,
                   readAttempts, readSuccessful, consecutiveErrors, zeroReads,
                   acquired, delivered>>
    /\ UNCHANGED notTr

\* One pass of the read loop. A port closed by the failed flush only fails.
CollectBitsAtIntervalWithMode_Read ==
    /\ prog = CS /\ pc = "read"
    /\ total < Len(buf)
    /\ \/ /\ Return("errTimeout")                       \* time.Now().After(deadline)
          /\ hist' = NoteTick(NoteClose(NoteFail([hist EXCEPT !.readEnd = "timeout"],
                                                 "timeout"), port), "close")
          /\ port' = "closed"
          /\ UNCHANGED <<buf, total, acquired>>
       \/ \E e \in (IF port = "open" THEN ReadErrors ELSE {PortClosedError}) :
            /\ Return("errRead")                        \* port.Read fails
            /\ hist' = NoteTick(NoteClose(NoteFail(NoteIO(
                                     NoteTick([hist EXCEPT !.readEnd = "error"], "read")),
                                     "read"), port), "close")
            /\ port' = "closed"
            /\ UNCHANGED <<buf, total, acquired>>
       \/ /\ port = "open"
          /\ \E chunk \in Chunks(Len(buf) - total) :
               /\ buf' = StoreAt(buf, total, chunk)
               /\ total' = total + Len(chunk)
               /\ IF total' < Len(buf)
                  THEN /\ hist' = NoteTick(NoteIO(hist), "read")
                       /\ UNCHANGED <<pc, ret, acquired>>
                  ELSE /\ pc' = "close" /\ ret' = ret
                       /\ acquired' = acquired + 1
                       /\ hist' = NoteTick(NoteIO([hist EXCEPT !.readEnd = "full"]), "read")
               /\ UNCHANGED port
    /\ UNCHANGED <<prog, mode, bitCount, interval, onBatch, data, cancelled, portName,
                   readAttempts, readSuccessful, consecutiveErrors, zeroReads,
                   delivered>>
    /\ UNCHANGED notTr

\* port.Close(); mask the trailing bits; onBatch(buf) is entered.
CollectBitsAtIntervalWithMode_Deliver ==
    /\ prog = CS /\ pc = "close"
    /\ port' = "closed"
    /\ buf' = MaskTrailingBits(buf, bitCount)
    /\ delivered' = Append(delivered, acquired)
    /\ hist' = NoteRaw(NoteTick(NoteCallback(NoteTick(NoteClose(hist, port), "close")),
                                "callback"), buf)
    /\ pc' = "callback"
    /\ UNCHANGED <<prog, mode, bitCount, interval, onBatch, ret, data, cancelled, portName,
                   total, readAttempts, readSuccessful, consecutiveErrors,
                   zeroReads, acquired>>
    /\ UNCHANGED notTr

\* onBatch returns; the loop reaches its second select.
CollectBitsAtIntervalWithMode_OnBatchReturn ==
    /\ prog = CS /\ pc = "callback"
    /\ pc' = "wait"
    /\ buf' = <<>>
    /\ total' = 0
    /\ hist' = NoteRaw(hist, <<>>)
    /\ UNCHANGED <<prog, mode, bitCount, interval, onBatch, ret, data, cancelled, portName,
                   port, readAttempts, readSuccessful, consecutiveErrors,
                   zeroReads, acquired, delivered>>
    /\ UNCHANGED notTr

\* select: case <-ticker.C
CollectBitsAtIntervalWithMode_Tick ==
    /\ prog = CS /\ pc = "wait"
    /\ Len(delivered) < MaxSamples
    /\ pc' = "ctxCheck"
    /\ UNCHANGED <<prog, mode, bitCount, interval, onBatch, ret, data, cancelled, portName,
                   port, buf, total, readAttempts, readSuccessful,
                   consecutiveErrors, zeroReads, acquired, delivered, hist>>
    /\ UNCHANGED notTr

\* select: case <-ctx.Done(): return ctx.Err()
CollectBitsAtIntervalWithMode_WaitCancelled ==
    /\ prog = CS /\ pc = "wait"
    /\ cancelled
    /\ Return("ctxErr")
    /\ UNCHANGED <<prog, mode, bitCount, interval, onBatch, data, cancelled, portName,
                   port, buf, total, readAttempts, readSuccessful,
                   consecutiveErrors, zeroReads, acquired, delivered, hist>>
    /\ UNCHANGED notTr

-----------------------------------------------------------------------------
(* connectToDevice: serial.Open, SetDTR, SetReadTimeout, ResetInputBuffer *)

\* "openFail": serial.Open fails. "flushFail": ResetInputBuffer fails, the port
\* is closed and nil is returned. "ok": the open port is returned.
ConnectOutcomes == {"openFail", "flushFail", "ok"}

\* The port connectToDevice returns.
connectToDevice(outcome) == IF outcome = "ok" THEN "open" ELSE "nil"

\* What a connectToDevice call adds to the observations.
NoteConnect(h, outcome) ==
    LET h1 == NoteSerialOpen(NoteIO(h))
        h2 == IF outcome = "openFail" THEN h1
              ELSE IF outcome = "flushFail" THEN [NoteOpen(h1) EXCEPT !.openSess = @ - 1]
              ELSE NoteOpen(h1)
        h3 == IF outcome = "ok" THEN h2 ELSE NoteFail(h2, "open")
    IN  [h3 EXCEPT !.rc = IF @.pending
                          THEN [@ EXCEPT !.opens = @ + 1, !.failed = @ \/ outcome # "ok"]
                          ELSE @]

\* What a failed port.Read of the reconnect loop adds to the observations: a
\* "closed"/"broken pipe" error opens a new reconnect record, any other error
\* extends the run of consecutive errors.
NoteReadError(h, e) ==
    IF e.closed \/ e.brokenPipe
    THEN [NoteIO(h) EXCEPT !.readEnd = "error", !.errRun = 0,
                           !.rc = [NoReconnect EXCEPT !.pending = TRUE]]
    ELSE [NoteFail(NoteIO(h), "read") EXCEPT
             !.readEnd = "error", !.errRun = @ + 1, !.rc = NoReconnect]

\* What a FindPort call of the reconnect loop adds to the observations.
NoteFind(h, r) ==
    LET h1 == IF r = NotFound THEN NoteFail(NoteIO(h), "notFound") ELSE NoteIO(h)
    IN  [h1 EXCEPT !.rc = IF @.pending
                          THEN [@ EXCEPT !.finds = @ + 1, !.failed = @ \/ r = NotFound]
                          ELSE @]

-----------------------------------------------------------------------------
(* CollectBitsAtIntervalWithReconnect: one port held across ticks *)

\* Mutant: the function returns without the deferred close.
DeferredClose_Missing(h, p) == h

\* The deferred func() { if port != nil { port.Close() } } of a return.
DeferredClose(h, p) == IF p # "nil" THEN NoteClose(h, p) ELSE h
AfterDeferredClose(p) == IF p # "nil" THEN "closed" ELSE p

CollectBitsAtIntervalWithReconnect_Start ==
    /\ prog = CR /\ pc = "start"
    /\ IF InvalidCollectArgs(bitCount, interval, onBatch)
       THEN Return("errArg")
       ELSE pc' = "find0" /\ ret' = ret
    /\ UNCHANGED <<prog, mode, bitCount, interval, onBatch, data, cancelled, portName,
                   port, buf, total, readAttempts, readSuccessful,
                   consecutiveErrors, zeroReads, acquired, delivered, hist>>
    /\ UNCHANGED notTr

\* Initial device connection: portName, err = FindPort()
CollectBitsAtIntervalWithReconnect_FindPort ==
    /\ prog = CR /\ pc = "find0"
    /\ \E r \in FindPortResults :
         /\ hist' = NoteFind(hist, r)
         /\ IF r = NotFound
            THEN Return("errNotFound") /\ UNCHANGED portName
            ELSE pc' = "connect0" /\ ret' = ret /\ portName' = r
    /\ UNCHANGED <<prog, mode, bitCount, interval, onBatch, data, cancelled,
                   port, buf, total, readAttempts, readSuccessful,
                   consecutiveErrors, zeroReads, acquired, delivered>>
    /\ UNCHANGED notTr

\* port, err = connectToDevice(portName, mode); consecutiveErrors := 0
CollectBitsAtIntervalWithReconnect_Connect ==
    /\ prog = CR /\ pc = "connect0"
    /\ \E outcome \in ConnectOutcomes :
         /\ hist' = NoteConnect(hist, outcome)
         /\ port' = connectToDevice(outcome)
         /\ IF outcome # "ok"
            THEN Return("errInit")
            ELSE pc' = "ctxCheck" /\ ret' = ret
    /\ consecutiveErrors' = 0
    /\ UNCHANGED <<prog, mode, bitCount, interval, onBatch, data, cancelled, portName,
                   buf, total, readAttempts, readSuccessful, zeroReads,
                   acquired, delivered>>
    /\ UNCHANGED notTr

\* The select at the top of the loop, then the locals of a sample read.
CollectBitsAtIntervalWithReconnect_CtxCheck ==
    /\ prog = CR /\ pc = "ctxCheck"
    /\ IF cancelled
       THEN /\ Return("ctxErr")
            /\ hist' = DeferredClose(hist, port)
            /\ port' = AfterDeferredClose(port)
            /\ UNCHANGED <<buf, total, readAttempts, readSuccessful, zeroReads>>
       ELSE /\ pc' = "read" /\ ret' = ret
            /\ buf' = MakeBuf(ByteCountOf(bitCount))
            /\ total' = 0
            /\ readAttempts' = 0
            /\ readSuccessful' = FALSE
            /\ zeroReads' = 0
            /\ UNCHANGED <<port, hist>>
    /\ UNCHANGED <<prog, mode, bitCount, interval, onBatch, data, cancelled, portName,
                   consecutiveErrors, acquired, delivered>>
    /\ UNCHANGED notTr

\* for total < byteCount && readAttempts < maxReadAttempts && !readSuccessful
ReadLoopCondition(t, n, attempts, ok) ==
    t < n /\ attempts < maxReadAttempts /\ ~ok

\* One pass of the read loop.
CollectBitsAtIntervalWithReconnect_Read ==
    /\ prog = CR /\ pc = "read"
    /\ ReadLoopCondition(total, Len(buf), readAttempts, readSuccessful)
    /\ \/ /\ pc' = "afterRead"                          \* deadline passed: break
          /\ hist' = [hist EXCEPT !.readEnd = "timeout", !.rc = NoReconnect]
          /\ UNCHANGED <<ret, port, buf, total, readAttempts, readSuccessful,
                         consecutiveErrors, zeroReads, acquired>>
       \/ /\ port = "nil"                               \* port.Read on a nil port
          /\ Return("panic")
          /\ hist' = [NoteIO(hist) EXCEPT !.readEnd = "panic", !.rc = NoReconnect]
          /\ UNCHANGED <<port, buf, total, readAttempts, readSuccessful,
                         consecutiveErrors, zeroReads, acquired>>
       \/ /\ port = "open"                              \* port.Read fails
          /\ \E e \in ReadErrors :
               IF IsDisconnectError(e)
               THEN /\ port' = PortAfterDisconnect      \* port.Close(); port = nil
                    /\ pc' = "afterRead"
                    /\ hist' = NoteStaleClose(NoteReadError(hist, e), port)
                    /\ UNCHANGED <<ret, consecutiveErrors>>
               ELSE /\ hist.errRun < MaxErrRun
                    /\ consecutiveErrors' = consecutiveErrors + 1
                    /\ IF TooManyErrors(consecutiveErrors')
                       THEN /\ Return("errTooMany")
                            /\ port' = AfterDeferredClose(port)
                            /\ hist' = DeferredClose(NoteReadError(hist, e), port)
                       ELSE /\ pc' = "afterRead" /\ ret' = ret
                            /\ hist' = NoteReadError(hist, e)
                            /\ UNCHANGED port
          /\ UNCHANGED <<buf, total, readAttempts, readSuccessful, zeroReads, acquired>>
       \/ /\ port = "open"                              \* port.Read returns n bytes
          /\ \E chunk \in Chunks(Len(buf) - total) :
               /\ Len(chunk) = 0 => zeroReads < MaxZeroReads
               /\ buf' = StoreAt(buf, total, chunk)
               /\ total' = total + Len(chunk)
               /\ readAttempts' = readAttempts + 1
               /\ zeroReads' = IF Len(chunk) = 0 THEN zeroReads + 1 ELSE zeroReads
               /\ consecutiveErrors' = IF Len(chunk) = 0 THEN consecutiveErrors ELSE 0
               /\ readSuccessful' = (Len(chunk) # 0 /\ SampleComplete(total', Len(buf)))
               /\ acquired' = IF readSuccessful' THEN acquired + 1 ELSE acquired
               /\ pc' = IF ReadLoopCondition(total', Len(buf), readAttempts', readSuccessful')
                        THEN "read" ELSE "afterRead"
               /\ hist' = [NoteIO(hist) EXCEPT
                             !.readEnd = IF readSuccessful' THEN "full"
                                         ELSE IF pc' = "read" THEN @ ELSE "attempts",
                             !.errRun = 0,
                             !.rc = NoReconnect]
          /\ UNCHANGED <<ret, port>>
    /\ UNCHANGED <<prog, mode, bitCount, interval, onBatch, data, cancelled, portName,
                   delivered>>
    /\ UNCHANGED notTr

\* After the read loop: a failed read closes the stale port and goes on to
\* rediscover; a successful one is masked and handed to onBatch.
CollectBitsAtIntervalWithReconnect_AfterRead ==
    /\ prog = CR /\ pc = "afterRead"
    /\ IF ReadFailed(readSuccessful, port)
       THEN /\ pc' = "refind"
            /\ port' = "nil"
            /\ hist' = NoteSampleEnd(IF port # "nil" THEN NoteStaleClose(hist, port)
                                                       ELSE hist)
            /\ buf' = <<>>                  \* the sample's locals are dead
            /\ total' = 0
            /\ readAttempts' = 0
            /\ zeroReads' = 0
            /\ readSuccessful' = FALSE
            /\ UNCHANGED delivered
       ELSE /\ pc' = "callback"
            /\ buf' = MaskTrailingBits(buf, bitCount)
            /\ delivered' = Append(delivered, acquired)
            /\ hist' = NoteRaw(NoteSampleEnd(NoteCallback(hist)), buf)
            /\ UNCHANGED <<port, total, readAttempts, zeroReads, readSuccessful>>
    /\ UNCHANGED <<prog, mode, bitCount, interval, onBatch, ret, data, cancelled, portName,
                   consecutiveErrors, acquired>>
    /\ UNCHANGED notTr

\* newPortName, err := FindPort(); on failure: continue
CollectBitsAtIntervalWithReconnect_Refind ==
    /\ prog = CR /\ pc = "refind"
    /\ \E r \in FindPortResults :
         /\ hist' = NoteReopen(NoteFind(hist, r))
         /\ IF r = NotFound
            THEN pc' = "ctxCheck" /\ UNCHANGED portName
            ELSE pc' = "reconnect" /\ portName' = r
    /\ UNCHANGED <<prog, mode, bitCount, interval, onBatch, ret, data, cancelled,
                   port, buf, total, readAttempts, readSuccessful,
                   consecutiveErrors, zeroReads, acquired, delivered>>
    /\ UNCHANGED notTr

\* port, err = connectToDevice(portName, mode); on success consecutiveErrors = 0;
\* either way: continue
CollectBitsAtIntervalWithReconnect_Reconnect ==
    /\ prog = CR /\ pc = "reconnect"
    /\ \E outcome \in ConnectOutcomes :
         /\ hist' = NoteReopen(NoteConnect(hist, outcome))
         /\ port' = connectToDevice(outcome)
         /\ consecutiveErrors' = IF outcome = "ok" THEN 0 ELSE consecutiveErrors
    /\ pc' = "ctxCheck"
    /\ UNCHANGED <<prog, mode, bitCount, interval, onBatch, ret, data, cancelled, portName,
                   buf, total, readAttempts, readSuccessful, zeroReads,
                   acquired, delivered>>
    /\ UNCHANGED notTr

\* onBatch returns; the loop reaches its second select.
CollectBitsAtIntervalWithReconnect_OnBatchReturn ==
    /\ prog = CR /\ pc = "callback"
    /\ pc' = "wait"
    /\ buf' = <<>>
    /\ total' = 0
    /\ hist' = NoteRaw(hist, <<>>)
    /\ UNCHANGED <<prog, mode, bitCount, interval, onBatch, ret, data, cancelled, portName,
                   port, readAttempts, readSuccessful, consecutiveErrors,
                   zeroReads, acquired, delivered>>
    /\ UNCHANGED notTr

\* Mutant: every tick closes the port and rediscovers the device.
CollectBitsAtIntervalWithReconnect_Tick_Reopens ==
    /\ prog = CR /\ pc = "wait"
    /\ Len(delivered) < MaxSamples
    /\ pc' = "refind"
    /\ port' = "nil"
    /\ hist' = NoteClose(hist, port)
    /\ UNCHANGED <<prog, mode, bitCount, interval, onBatch, ret, data, cancelled,
                   portName, buf, total, readAttempts, readSuccessful,
                   consecutiveErrors, zeroReads, acquired, delivered>>
    /\ UNCHANGED notTr

\* select: case <-ticker.C
CollectBitsAtIntervalWithReconnect_Tick ==
    /\ prog = CR /\ pc = "wait"
    /\ Len(delivered) < MaxSamples
    /\ pc' = "ctxCheck"
    /\ UNCHANGED <<prog, mode, bitCount, interval, onBatch, ret, data, cancelled, portName,
                   port, buf, total, readAttempts, readSuccessful,
                   consecutiveErrors, zeroReads, acquired, delivered, hist>>
    /\ UNCHANGED notTr

\* select: case <-ctx.Done(): return ctx.Err()
CollectBitsAtIntervalWithReconnect_WaitCancelled ==
    /\ prog = CR /\ pc = "wait"
    /\ cancelled
    /\ Return("ctxErr")
    /\ hist' = DeferredClose(hist, port)
    /\ port' = AfterDeferredClose(port)
    /\ UNCHANGED <<prog, mode, bitCount, interval, onBatch, data, cancelled, portName,
                   buf, total, readAttempts, readSuccessful,
                   consecutiveErrors, zeroReads, acquired, delivered>>
    /\ UNCHANGED notTr

-----------------------------------------------------------------------------
(* OpenBitBabbler (Linux): gousb context, device, config, interface, endpoints, *)
(* FTDI reset and MPSSE initialisation, synchronisation, clock divisor          *)

Bitrates == {0, 1, 457, 2500000, 30000000, 30000001}
Latencies == {0, 1, 16}

\* Lengths a bulk-IN read returns while purging: nothing, a status-only
\* packet, a packet with payload.
PurgeLens == {0, 2, 64}

\* i < 10 of purgeRead
purgeReads == 10

\* i < 10 of checkSync
syncReads == 10

\* What a bulk-IN read gives checkSync: its length and the bytes it stores at
\* buf[2] and buf[3] when it is long enough.
SyncResponses == [n : {2, 3, 4, 5}, b2 : {0, 250}, b3 : {170, 171}]

\* The endpoint descriptors of the interface setting, in order.
EndpointKinds == {"bulkIn", "bulkOut", "intrIn"}
EndpointLists ==
    UNION { [1..n -> EndpointKinds] : n \in 0..2 }

\* Mutant: Close releases the context first and the interface last.
SessionClose_ContextFirst == <<"ctx", "dev", "cfg", "intf">>

\* Mutant: Close forgets the configuration.
SessionClose_SkipsConfig == <<"intf", "dev", "ctx">>

\* The fields DeviceSession.Close releases, in its order.
SessionClose == <<"intf", "cfg", "dev", "ctx">>

\* Mutant: the length of the response is not compared, so bytes left in buf
\* by an earlier read can be taken for an echo.
SyncAck_AnyLength(n, b2, b3, cmd) == b2 = 250 /\ b3 = cmd

\* Mutant: the echoed probe byte is not compared.
SyncAck_AnyProbe(n, b2, b3, cmd) == n = 4 /\ b2 = 250

\* n == 4 && buf[2] == 0xFA && buf[3] == cmd
SyncAck(n, b2, b3, cmd) == n = 4 /\ b2 = 250 /\ b3 = cmd

\* clkDiv := uint16(30000000/bitrate - 1)
ClkDivOf(rate) == ((30000000 \div rate) - 1) % 65536

RECURSIVE SumCloses(_, _)
SumCloses(r, S) ==
    IF S = {} THEN 0
    ELSE LET x == CHOOSE y \in S : TRUE IN r[x].closes + SumCloses(r, S \ {x})

RECURSIVE CloseAll(_, _)
CloseAll(r, order) ==
    IF order = <<>> THEN r
    ELSE CloseAll([r EXCEPT ![Head(order)] =
                      [held |-> FALSE, closes |-> @.closes + 1,
                       at |-> SumCloses(r, Resources) + 1]],
                  Tail(order))

Acquire(r, x) == [r EXCEPT ![x].held = TRUE]

\* Close `order`, then return nil, err.
OpenFails(err, order) ==
    /\ bbPc' = "done"
    /\ session' = "nil"
    /\ bbErr' = err
    /\ res' = CloseAll(res, order)

InitBB ==
    /\ prog = "none"
    /\ mode = ""
    /\ bitCount = 0
    /\ interval = 0
    /\ onBatch = "nil"
    /\ pc = "done"
    /\ ret = "none"
    /\ data = <<>>
    /\ cancelled = FALSE
    /\ portName = ""
    /\ port = "nil"
    /\ buf = <<>>
    /\ total = 0
    /\ readAttempts = 0
    /\ readSuccessful = FALSE
    /\ consecutiveErrors = 0
    /\ zeroReads = 0
    /\ acquired = 0
    /\ delivered = <<>>
    /\ hist = HistInit
    /\ bbPc = "start"
    /\ bitrate \in Bitrates
    /\ latencyMs \in Latencies
    /\ res = NoResources
    /\ session = "none"
    /\ bbErr = "none"
    /\ loopI = 0
    /\ syncPass = 0
    /\ syncCmd = 0
    /\ syncBuf = <<0, 0>>
    /\ clkDiv = -1
    /\ bbHist = BBHistInit
    /\ RRIdle
    /\ DIdle
    /\ LCIdle
    /\ SMIdle
    /\ CMIdle

\* Defaults of the arguments; ctx := gousb.NewContext()
OpenBitBabbler_Start ==
    /\ bbPc = "start"
    /\ bitrate' = IF bitrate = 0 THEN 2500000 ELSE bitrate
    /\ latencyMs' = IF latencyMs = 0 THEN 1 ELSE latencyMs
    /\ res' = Acquire(res, "ctx")
    /\ bbPc' = "openDevice"
    /\ UNCHANGED <<session, bbErr, loopI, syncPass, syncCmd, syncBuf, clkDiv, bbHist>>
    /\ UNCHANGED notBB

\* dev, err := ctx.OpenDeviceWithVIDPID(...)
OpenBitBabbler_OpenDevice ==
    /\ bbPc = "openDevice"
    /\ \E outcome \in {"err", "nil", "ok"} :
         IF outcome = "ok"
         THEN /\ res' = Acquire(res, "dev")
              /\ bbPc' = "config"
              /\ UNCHANGED <<session, bbErr>>
         ELSE OpenFails(IF outcome = "err" THEN "openDevice" ELSE "notFound", <<"ctx">>)
    /\ UNCHANGED <<bitrate, latencyMs, loopI, syncPass, syncCmd, syncBuf, clkDiv, bbHist>>
    /\ UNCHANGED notBB

\* cfg, err := dev.Config(1)
OpenBitBabbler_Config ==
    /\ bbPc = "config"
    /\ \E ok \in BOOLEAN :
         IF ok
         THEN /\ res' = Acquire(res, "cfg")
              /\ bbPc' = "interface"
              /\ UNCHANGED <<session, bbErr>>
         ELSE OpenFails("config", <<"dev", "ctx">>)
    /\ UNCHANGED <<bitrate, latencyMs, loopI, syncPass, syncCmd, syncBuf, clkDiv, bbHist>>
    /\ UNCHANGED notBB

\* intf, err := cfg.Interface(0, 0)
OpenBitBabbler_Interface ==
    /\ bbPc = "interface"
    /\ \E ok \in BOOLEAN :
         IF ok
         THEN /\ res' = Acquire(res, "intf")
              /\ bbPc' = "endpoints"
              /\ UNCHANGED <<session, bbErr>>
         ELSE OpenFails("interface", <<"cfg", "dev", "ctx">>)
    /\ UNCHANGED <<bitrate, latencyMs, loopI, syncPass, syncCmd, syncBuf, clkDiv, bbHist>>
    /\ UNCHANGED notBB

\* The loop over intf.Setting.Endpoints: failAt is the endpoint whose
\* InEndpoint/OutEndpoint lookup fails (0: none fails); then the nil checks.
OpenBitBabbler_Endpoints ==
    /\ bbPc = "endpoints"
    /\ \E eps \in EndpointLists, failAt \in 0..2 :
         /\ failAt <= Len(eps)
         /\ failAt > 0 => eps[failAt] \in {"bulkIn", "bulkOut"}
         /\ IF failAt > 0
            THEN OpenFails("endpoint", SessionClose)
            ELSE IF (\A i \in 1..Len(eps) : eps[i] # "bulkIn")
                    \/ (\A j \in 1..Len(eps) : eps[j] # "bulkOut")
            THEN OpenFails("noEndpoints", SessionClose)
            ELSE /\ bbPc' = "ftdiReset"
                 /\ UNCHANGED <<session, bbErr, res>>
    /\ UNCHANGED <<bitrate, latencyMs, loopI, syncPass, syncCmd, syncBuf, clkDiv, bbHist>>
    /\ UNCHANGED notBB

\* The vendor control requests of the initialisation, in order, and what
\* follows each.
ControlSteps == {"ftdiReset", "eventChar", "errorChar", "latency", "flowControl",
                 "bitmodeReset", "bitmodeMpsse"}

AfterControl(step) ==
    CASE step = "ftdiReset"    -> "purgeRead"
      [] step = "eventChar"    -> "errorChar"
      [] step = "errorChar"    -> "latency"
      [] step = "latency"      -> "flowControl"
      [] step = "flowControl"  -> "bitmodeReset"
      [] step = "bitmodeReset" -> "bitmodeMpsse"
      [] step = "bitmodeMpsse" -> "syncWrite"

\* if err := s.ftdi...(); err != nil { s.Close(); return nil, err }
OpenBitBabbler_Control ==
    /\ bbPc \in ControlSteps
    /\ \E ok \in BOOLEAN :
         IF ok
         THEN /\ bbPc' = AfterControl(bbPc)
              /\ loopI' = 0
              /\ syncPass' = IF bbPc' = "syncWrite" THEN 1 ELSE syncPass
              /\ syncCmd' = IF bbPc' = "syncWrite" THEN 170 ELSE syncCmd
              /\ UNCHANGED <<session, bbErr, res>>
         ELSE /\ OpenFails(bbPc, SessionClose)
              /\ UNCHANGED <<loopI, syncPass, syncCmd>>
    /\ UNCHANGED <<bitrate, latencyMs, syncBuf, clkDiv, bbHist>>
    /\ UNCHANGED notBB

\* One pass of purgeRead's loop: n, _ := s.inEp.Read(buf); if n <= 2 { break }.
\* purgeRead returns nil whatever happened. The second purge ends the open.
purgeRead ==
    /\ bbPc \in {"purgeRead", "purgeRead2"}
    /\ \E n \in PurgeLens :
         IF n <= 2 \/ loopI + 1 >= purgeReads
         THEN /\ loopI' = 0
              /\ bbHist' = [bbHist EXCEPT !.purge = IF n <= 2 THEN "empty" ELSE "data"]
              /\ IF bbPc = "purgeRead"
                 THEN /\ bbPc' = "eventChar"
                      /\ UNCHANGED <<session, bbErr>>
                 ELSE /\ bbPc' = "done"
                      /\ session' = "s"
                      /\ bbErr' = "nil"
         ELSE /\ loopI' = loopI + 1
              /\ UNCHANGED <<bbPc, session, bbErr, bbHist>>
    /\ UNCHANGED <<bitrate, latencyMs, res, syncPass, syncCmd, syncBuf, clkDiv>>
    /\ UNCHANGED notBB

\* What OpenBitBabbler does with the value v of the running checkSync:
\* ok := checkSync(0xAA) && checkSync(0xAB), once more if !ok, then the
\* failure return.
AfterCheckSync(v) ==
    IF v /\ syncCmd = 170
    THEN /\ bbPc' = "syncWrite"
         /\ syncCmd' = 171
         /\ UNCHANGED <<syncPass, session, bbErr, res>>
    ELSE IF v
    THEN /\ bbPc' = "clock"
         /\ UNCHANGED <<syncCmd, syncPass, session, bbErr, res>>
    ELSE IF syncPass = 1
    THEN /\ bbPc' = "syncWrite"
         /\ syncPass' = 2
         /\ syncCmd' = 170
         /\ UNCHANGED <<session, bbErr, res>>
    ELSE /\ OpenFails("syncFailed", SessionClose)
         /\ UNCHANGED <<syncCmd, syncPass>>

\* checkSync: s.outEp.Write(msg); buf := make([]byte, 512)
checkSync_Write ==
    /\ bbPc = "syncWrite"
    /\ bbHist' = [bbHist EXCEPT !.syncStarted = TRUE, !.probes = @ + 1]
    /\ \E ok \in BOOLEAN :
         IF ok
         THEN /\ bbPc' = "syncRead"
              /\ UNCHANGED <<syncCmd, syncPass, session, bbErr, res>>
         ELSE AfterCheckSync(FALSE)
    /\ loopI' = 0
    /\ syncBuf' = <<0, 0>>
    /\ UNCHANGED <<bitrate, latencyMs, clkDiv>>
    /\ UNCHANGED notBB

\* checkSync: one pass of the loop of reads.
checkSync_Read ==
    /\ bbPc = "syncRead"
    /\ \E r \in SyncResponses :
         /\ syncBuf' = <<IF r.n >= 3 THEN r.b2 ELSE syncBuf[1],
                         IF r.n >= 4 THEN r.b3 ELSE syncBuf[2]>>
         /\ bbHist' = IF r.n = 4 /\ r.b2 = 250 /\ r.b3 = syncCmd
                      THEN [bbHist EXCEPT !.acks = @ \cup {<<syncPass, syncCmd>>}]
                      ELSE bbHist
         /\ IF SyncAck(r.n, syncBuf'[1], syncBuf'[2], syncCmd)
            THEN AfterCheckSync(TRUE) /\ loopI' = 0
            ELSE IF loopI + 1 >= syncReads
            THEN AfterCheckSync(FALSE) /\ loopI' = 0
            ELSE /\ loopI' = loopI + 1
                 /\ UNCHANGED <<bbPc, syncCmd, syncPass, session, bbErr, res>>
    /\ UNCHANGED <<bitrate, latencyMs, clkDiv>>
    /\ UNCHANGED notBB

\* The clock command: s.outEp.Write(cmd) with the divisor's two bytes.
OpenBitBabbler_Clock ==
    /\ bbPc = "clock"
    /\ clkDiv' = ClkDivOf(bitrate)
    /\ \E ok \in BOOLEAN :
         IF ok
         THEN /\ bbPc' = "purgeRead2"
              /\ UNCHANGED <<session, bbErr, res>>
         ELSE OpenFails("clock", SessionClose)
    /\ loopI' = 0
    /\ UNCHANGED <<bitrate, latencyMs, syncPass, syncCmd, syncBuf, bbHist>>
    /\ UNCHANGED notBB

\* if s.intf != nil, if s.cfg != nil, ...: the fields Close releases.
NonNilFields(r, order) == SelectSeq(order, LAMBDA x : r[x].held)

\* The Close calls of DeviceSession.Close that return an error (intf.Close()
\* returns nothing).
CloseErrorSets == SUBSET {"cfg", "dev", "ctx"}

\* func (s *DeviceSession) Close(), called on what OpenBitBabbler returned: the
\* session, or nil after a failed open. The errors of the Close calls are
\* dropped, and Close itself returns nothing.
DeviceSession_Close ==
    /\ bbPc = "done"
    /\ \E errs \in CloseErrorSets :
         IF session = "nil"
         THEN /\ errs = {}
              /\ UNCHANGED <<res, bbHist>>
         ELSE /\ res' = CloseAll(res, NonNilFields(res, SessionClose))
              /\ bbHist' = [bbHist EXCEPT !.closeErrs = errs]
    /\ bbPc' = "closed"
    /\ UNCHANGED <<bitrate, latencyMs, session, bbErr, loopI, syncPass, syncCmd,
                   syncBuf, clkDiv>>
    /\ UNCHANGED notBB

NextBB ==
    \/ OpenBitBabbler_Start
    \/ OpenBitBabbler_OpenDevice
    \/ OpenBitBabbler_Config
    \/ OpenBitBabbler_Interface
    \/ OpenBitBabbler_Endpoints
    \/ OpenBitBabbler_Control
    \/ purgeRead
    \/ checkSync_Write
    \/ checkSync_Read
    \/ OpenBitBabbler_Clock
    \/ DeviceSession_Close

SpecBB == InitBB /\ [][NextBB]_vars

-----------------------------------------------------------------------------
(* DeviceSession.ReadRandom: the gousb build (MPSSE read, FTDI status headers *)
(* stripped) and the serial build (plain reads under a 5 s deadline)          *)

MaxRandLen == 3
BufLens == 0..MaxRandLen
MaxPackets == {3, 4}

\* roundUpToMaxPacket(n, max)
roundUpToMaxPacket(n, max) ==
    IF max <= 0 THEN n
    ELSE IF GoMod(n, max) = 0 THEN n
    ELSE (GoDiv(n, max) + 1) * max

\* len(tmp): roundUpToMaxPacket(n, s.maxPacket) + s.maxPacket
TmpLen(n, mp) == roundUpToMaxPacket(n, mp) + mp

\* byte((n - 1) & 0xFF), byte((n - 1) >> 8)
LengthBytes(n) == <<(n - 1) % 256, ((n - 1) \div 256) % 256>>

\* What the device puts into the first m bytes of tmp: every packet of mp
\* bytes starts with 2 status bytes (written 0 here); the payload bytes are
\* numbered from stream + 1 in the order the device sent them.
PayloadIn(m, mp) == Cardinality({k \in 1..m : (k - 1) % mp >= 2})
BulkRead(m, stream, mp) ==
    [j \in 1..m |-> IF (j - 1) % mp < 2 THEN 0 ELSE stream + PayloadIn(j, mp)]

\* Mutant: the copy starts at the packet's status header.
CopyFrom_KeepsHeader(offset) == offset

\* tmp[offset+2 : ...]: where the payload of the packet at offset starts
CopyFrom(offset) == offset + 2

\* Mutant: the payload of a packet is not cut down to what buf still lacks.
Usable_Uncapped(take, w, g) == take - 2

\* usable := take - 2; if usable > (want - got) { usable = want - got }
Usable(take, w, g) == IF take - 2 > w - g THEN w - g ELSE take - 2

\* The loop over the packets of one bulk read of m bytes, from offset on:
\* the values of got and buf it ends with, and the copy calls it made (cs:
\* those made so far).
RECURSIVE StripPackets(_, _, _, _, _, _, _, _)
StripPackets(tmp, m, offset, g, b, w, mp, cs) ==
    IF ~(offset < m) THEN [got |-> g, buf |-> b, copies |-> cs]
    ELSE LET remain == m - offset IN
         IF remain <= 2 THEN [got |-> g, buf |-> b, copies |-> cs]
         ELSE LET take    == IF remain > mp THEN mp ELSE remain
                  usable  == Usable(take, w, g)
                  b2      == [i \in 1..Len(b) |->
                                 IF i > g /\ i <= g + usable
                                 THEN tmp[CopyFrom(offset) + (i - g)]
                                 ELSE b[i]]
                  g2      == g + usable
                  cs2     == cs \cup {[src |-> CopyFrom(offset), dst |-> g, len |-> usable]}
              IN IF g2 = w THEN [got |-> g2, buf |-> b2, copies |-> cs2]
                 ELSE StripPackets(tmp, m, offset + take, g2, b2, w, mp, cs2)

\* return n, err
ReturnRR(n, err) == rrPc' = "done" /\ rrN' = n /\ rrErr' = err

InitRR ==
    /\ TrIdle
    /\ BBIdle
    /\ rrImpl \in {"linux", "serial"}
    /\ rrPc = "start"
    /\ rrBuf \in { MakeBuf(n) : n \in BufLens }
    /\ maxPacket \in (IF rrImpl = "linux" THEN MaxPackets ELSE {0})
    /\ want = 0
    /\ got = 0
    /\ rrCmd = <<>>
    /\ rrStream = 0
    /\ deadlinePassed = FALSE
    /\ rrN = -1
    /\ rrErr = "none"
    /\ rrHist = RRHistInit
    /\ DIdle
    /\ LCIdle
    /\ SMIdle
    /\ CMIdle

\* Linux: the empty-buffer return, then the MPSSE read command is written.
ReadRandom_Write ==
    /\ rrImpl = "linux" /\ rrPc = "start"
    /\ IF Len(rrBuf) = 0
       THEN /\ ReturnRR(0, "nil")
            /\ UNCHANGED <<rrCmd, want>>
       ELSE \E ok \in BOOLEAN :
              /\ rrCmd' = LengthBytes(Len(rrBuf))
              /\ IF ok
                 THEN /\ rrPc' = "read"
                      /\ want' = Len(rrBuf)
                      /\ UNCHANGED <<rrN, rrErr>>
                 ELSE /\ ReturnRR(0, "write")
                      /\ UNCHANGED want
    /\ UNCHANGED <<rrImpl, rrBuf, maxPacket, got, rrStream, deadlinePassed, rrHist>>
    /\ UNCHANGED notRR

\* Linux: one pass of `for got < want`: a bulk read of m bytes into tmp, and
\* the packets of it stripped into buf.
ReadRandom_Read ==
    /\ rrImpl = "linux" /\ rrPc = "read"
    /\ got < want
    /\ \/ /\ ReturnRR(got, "read")                      \* s.inEp.Read fails
          /\ UNCHANGED <<rrBuf, got, rrStream, rrHist>>
       \/ \E m \in 0..TmpLen(want, maxPacket) :
            /\ rrStream' = rrStream + PayloadIn(m, maxPacket)
            /\ IF m <= 2
               THEN /\ rrHist' = [rrHist EXCEPT !.statusReads = 1 - @,
                                                !.m = m, !.copies = {}]
                    /\ UNCHANGED <<rrPc, rrN, rrErr, rrBuf, got>>
               ELSE LET r == StripPackets(BulkRead(m, rrStream, maxPacket), m, 0,
                                          got, rrBuf, want, maxPacket, {})
                    IN /\ got' = r.got
                       /\ rrBuf' = r.buf
                       /\ IF r.got < want
                          THEN UNCHANGED <<rrPc, rrN, rrErr>>
                          ELSE ReturnRR(r.got, "nil")
                       /\ rrHist' = [rrHist EXCEPT !.m = m, !.copies = r.copies]
    /\ UNCHANGED <<rrImpl, maxPacket, want, rrCmd, deadlinePassed>>
    /\ UNCHANGED notRR

\* Serial: the empty-buffer return; total := 0 and the deadline is set.
ReadRandomSerial_Start ==
    /\ rrImpl = "serial" /\ rrPc = "start"
    /\ IF Len(rrBuf) = 0
       THEN ReturnRR(0, "nil")
       ELSE rrPc' = "read" /\ UNCHANGED <<rrN, rrErr>>
    /\ UNCHANGED <<rrImpl, rrBuf, maxPacket, want, got, rrCmd, rrStream,
                   deadlinePassed, rrHist>>
    /\ UNCHANGED notRR

\* Time reaches the deadline of the running serial read: at the top of the
\* loop, or while s.port.Read is waiting for the device.
DeadlinePasses ==
    /\ rrImpl = "serial" /\ rrPc \in {"read", "portRead"}
    /\ ~deadlinePassed
    /\ deadlinePassed' = TRUE
    /\ UNCHANGED <<rrImpl, rrPc, rrBuf, maxPacket, want, got, rrCmd, rrStream,
                   rrN, rrErr, rrHist>>
    /\ UNCHANGED notRR

\* Serial: the top of a pass of `for total < len(buf)`: the deadline test
\* (break, then return total, nil); otherwise s.port.Read(buf[total:]) is
\* called.
ReadRandomSerial_DeadlineTest ==
    /\ rrImpl = "serial" /\ rrPc = "read"
    /\ got < Len(rrBuf)
    /\ IF deadlinePassed
       THEN /\ ReturnRR(got, "nil")
            /\ rrHist' = [rrHist EXCEPT !.timedOut = TRUE]
       ELSE /\ rrPc' = "portRead"
            /\ UNCHANGED <<rrN, rrErr, rrHist>>
    /\ UNCHANGED <<rrImpl, rrBuf, maxPacket, want, got, rrCmd, rrStream, deadlinePassed>>
    /\ UNCHANGED notRR

\* Serial: s.port.Read(buf[total:]) returns, before or after the deadline: an
\* error is returned with total; n bytes are added to total, and the loop
\* ends with return total, nil when the buffer is full.
ReadRandomSerial_Read ==
    /\ rrImpl = "serial" /\ rrPc = "portRead"
    /\ \/ /\ ReturnRR(got, "read")                    \* s.port.Read fails
          /\ UNCHANGED <<rrBuf, got, rrStream, rrHist>>
       \/ \E n \in 0..(Len(rrBuf) - got) :
            /\ rrBuf' = [i \in 1..Len(rrBuf) |->
                            IF i > got /\ i <= got + n
                            THEN rrStream + (i - got) ELSE rrBuf[i]]
            /\ got' = got + n
            /\ rrStream' = rrStream + n
            /\ rrHist' = IF n = 0 THEN [rrHist EXCEPT !.statusReads = 1 - @]
                         ELSE rrHist
            /\ IF got' < Len(rrBuf)
               THEN rrPc' = "read" /\ UNCHANGED <<rrN, rrErr>>
               ELSE ReturnRR(got', "nil")
    /\ UNCHANGED <<rrImpl, maxPacket, want, rrCmd, deadlinePassed>>
    /\ UNCHANGED notRR

NextRR ==
    \/ ReadRandom_Write
    \/ ReadRandom_Read
    \/ ReadRandomSerial_Start
    \/ DeadlinePasses
    \/ ReadRandomSerial_DeadlineTest
    \/ ReadRandomSerial_Read

SpecRR == InitRR /\ [][NextRR]_vars

\* The scheduler runs the calling goroutine, the clock advances, and every
\* read the device is asked for returns (the device keeps answering).
LiveRR == SpecRR /\ WF_vars(NextRR) /\ WF_vars(DeadlinePasses)

-----------------------------------------------------------------------------
(* DeviceSession.ReadRandom (Linux): the command it writes, for buffers of    *)
(* every length up to MaxCmdLen (the buffer's contents play no part in it)    *)

MaxCmdLen == 65538
CmdLens == 1..MaxCmdLen

InitLC ==
    /\ TrIdle
    /\ BBIdle
    /\ RRIdle
    /\ DIdle
    /\ SMIdle
    /\ CMIdle
    /\ lcLen \in CmdLens
    /\ lcCmd = <<>>
    /\ lcWant = 0

\* n := len(buf); cmd := {0x20, byte((n-1) & 0xFF), byte((n-1) >> 8), 0x87};
\* want := n
ReadRandom_Command ==
    /\ lcCmd = <<>>
    /\ lcLen >= 1
    /\ lcCmd' = LengthBytes(lcLen)
    /\ lcWant' = lcLen
    /\ UNCHANGED lcLen
    /\ UNCHANGED notLC

NextLC == ReadRandom_Command

SpecLC == InitLC /\ [][NextLC]_vars

-----------------------------------------------------------------------------
(* changeMode: the knock sequence that switches the device's capture mode     *)

\* Mutant: the knocks in another order.
sequences_Reordered == <<300, 110, 110>>

\* sequences := []int{110, 300, 110}
sequences == <<110, 300, 110>>

\* serial.Open(portName, mode) is called with baud rate b and succeeds or not.
NoteKnockOpen(h, b, ok) ==
    [h EXCEPT !.attempts = Append(@, b),
              !.failedAt = IF ok THEN @ ELSE Len(h.attempts) + 1,
              !.open     = IF ok THEN @ + 1 ELSE @,
              !.overlap  = @ \/ h.open > 0]

\* port.Close()
NoteKnockClose(h) == [h EXCEPT !.open = @ - 1]

InitCM ==
    /\ TrIdle
    /\ BBIdle
    /\ RRIdle
    /\ DIdle
    /\ LCIdle
    /\ SMIdle
    /\ cmPc = "start"
    /\ cmMode \in CaptureModes
    /\ cmBaud = 0
    /\ cmI = 0
    /\ cmPort = "nil"
    /\ cmErr = "none"
    /\ cmHist = CMHistInit

\* baudRate := mode.GetBaudRate(); the loop over sequences begins.
changeMode_Start ==
    /\ cmPc = "start"
    /\ cmBaud' = GetBaudRate(cmMode)
    /\ cmI' = 1
    /\ cmPc' = "knock"
    /\ UNCHANGED <<cmMode, cmPort, cmErr, cmHist>>
    /\ UNCHANGED notCM

\* One pass of the loop, first half: serial.Open at sequences[i]; on failure
\* return the wrapped error.
changeMode_KnockOpen ==
    /\ cmPc = "knock"
    /\ \E ok \in BOOLEAN :
         /\ cmHist' = NoteKnockOpen(cmHist, sequences[cmI], ok)
         /\ IF ok
            THEN /\ cmPort' = "open"
                 /\ cmPc' = "knockClose"
                 /\ UNCHANGED cmErr
            ELSE /\ cmPc' = "done"
                 /\ cmErr' = "errKnockOpen"
                 /\ UNCHANGED cmPort
    /\ UNCHANGED <<cmMode, cmBaud, cmI>>
    /\ UNCHANGED notCM

\* One pass of the loop, second half: time.Sleep(500ms); port.Close(); the
\* next element of sequences, or the end of the loop.
changeMode_KnockClose ==
    /\ cmPc = "knockClose"
    /\ cmPort' = "closed"
    /\ cmHist' = NoteKnockClose(cmHist)
    /\ cmI' = cmI + 1
    /\ cmPc' = IF cmI' > Len(sequences) THEN "final" ELSE "knock"
    /\ UNCHANGED <<cmMode, cmBaud, cmErr>>
    /\ UNCHANGED notCM

\* serial.Open(portName, finalMode); on failure return the wrapped error.
changeMode_FinalOpen ==
    /\ cmPc = "final"
    /\ \E ok \in BOOLEAN :
         /\ cmHist' = NoteKnockOpen(cmHist, cmBaud, ok)
         /\ IF ok
            THEN /\ cmPort' = "open"
                 /\ cmPc' = "finalClose"
                 /\ UNCHANGED cmErr
            ELSE /\ cmPc' = "done"
                 /\ cmErr' = "errFinalOpen"
                 /\ UNCHANGED cmPort
    /\ UNCHANGED <<cmMode, cmBaud, cmI>>
    /\ UNCHANGED notCM

\* port.Close(); return nil
changeMode_FinalClose ==
    /\ cmPc = "finalClose"
    /\ cmPort' = "closed"
    /\ cmHist' = NoteKnockClose(cmHist)
    /\ cmPc' = "done"
    /\ cmErr' = "nil"
    /\ UNCHANGED <<cmMode, cmBaud, cmI>>
    /\ UNCHANGED notCM

NextCM ==
    \/ changeMode_Start
    \/ changeMode_KnockOpen
    \/ changeMode_KnockClose
    \/ changeMode_FinalOpen
    \/ changeMode_FinalClose

SpecCM == InitCM /\ [][NextCM]_vars

-----------------------------------------------------------------------------
(* The BitBabbler sampler, func main of cmd/bb: discovery, open, then a loop  *)
(* that reads ceil(bits/8) bytes, masks and prints them once a second         *)

\* Values of the -bits flag.
SamplerBits == {-16, -9, -8, -1, 0, 1, 8, 13, 16}

\* log.Fatal / log.Fatalf; a run-time panic; return from main
Exit(how) == smPc' = "exit" /\ smExit' = how

InitSM ==
    /\ TrIdle
    /\ BBIdle
    /\ RRIdle
    /\ DIdle
    /\ LCIdle
    /\ CMIdle
    /\ smPc = "detect"
    /\ smBits \in SamplerBits
    /\ smByteCount = 0
    /\ smBuf = <<>>
    /\ smN = 0
    /\ smCancelled = FALSE
    /\ smExit = "none"
    /\ smOut = <<>>
    /\ smHist = SMHistInit

\* present, err := bbusb.Detect(): fatal on an error and on no device
main_Detect ==
    /\ smPc = "detect"
    /\ smHist' = [smHist EXCEPT !.io = TRUE]
    /\ \E r \in {"err", "absent", "present"} :
         IF r = "present"
         THEN smPc' = "find" /\ UNCHANGED smExit
         ELSE Exit("fatal")
    /\ UNCHANGED <<smBits, smByteCount, smBuf, smN, smCancelled, smOut>>
    /\ UNCHANGED notSM

\* device, err := bbusb.FindDevice(): fatal on an error
main_FindDevice ==
    /\ smPc = "find"
    /\ \E ok \in BOOLEAN :
         IF ok
         THEN smPc' = "open" /\ UNCHANGED smExit
         ELSE Exit("fatal")
    /\ UNCHANGED <<smBits, smByteCount, smBuf, smN, smCancelled, smOut, smHist>>
    /\ UNCHANGED notSM

\* session, err := bbusb.OpenBitBabbler(...): fatal on an error; then
\* byteCount := (*bits + 7) / 8 and the signal context.
main_OpenBitBabbler ==
    /\ smPc = "open"
    /\ \E ok \in BOOLEAN :
         IF ok
         THEN /\ smPc' = "ctxCheck"
              /\ smByteCount' = ByteCountOf(smBits)
              /\ UNCHANGED smExit
         ELSE /\ Exit("fatal")
              /\ UNCHANGED smByteCount
    /\ UNCHANGED <<smBits, smBuf, smN, smCancelled, smOut, smHist>>
    /\ UNCHANGED notSM

\* os.Interrupt arrives: the context of signal.NotifyContext is done.
main_Interrupt ==
    /\ smPc \in {"ctxCheck", "read", "mask", "wait"}
    /\ ~smCancelled
    /\ smCancelled' = TRUE
    /\ UNCHANGED <<smPc, smBits, smByteCount, smBuf, smN, smExit, smOut, smHist>>
    /\ UNCHANGED notSM

\* select { case <-ctx.Done(): return; default: }
main_CtxCheck ==
    /\ smPc = "ctxCheck"
    /\ IF smCancelled
       THEN Exit("return")
       ELSE smPc' = "read" /\ UNCHANGED smExit
    /\ UNCHANGED <<smBits, smByteCount, smBuf, smN, smCancelled, smOut, smHist>>
    /\ UNCHANGED notSM

\* buf := make([]byte, byteCount), which panics on a negative length;
\* n, err := session.ReadRandom(buf): an error is logged and the loop
\* continues; an empty buf gives (0, nil) with no transfer; otherwise n bytes
\* are in buf, n = len(buf) unless the deadline of the !linux build ended the
\* read early.
main_ReadRandom ==
    /\ smPc = "read"
    /\ IF smByteCount < 0
       THEN /\ Exit("panic")
            /\ smHist' = [smHist EXCEPT !.alloc = TRUE]
            /\ UNCHANGED <<smBuf, smN>>
       ELSE IF smByteCount = 0
       THEN /\ smBuf' = <<>>
            /\ smN' = 0
            /\ smPc' = "mask"
            /\ smHist' = [smHist EXCEPT !.alloc = TRUE, !.raw = <<>>]
            /\ UNCHANGED smExit
       ELSE \/ /\ smBuf' = <<>>
               /\ smN' = 0
               /\ smPc' = "ctxCheck"
               /\ smHist' = [smHist EXCEPT !.alloc = TRUE, !.io = TRUE]
               /\ UNCHANGED smExit
            \/ \E n \in 0..smByteCount : \E chunk \in [1..n -> ByteVals] :
                 /\ smBuf' = StoreAt(MakeBuf(smByteCount), 0, chunk)
                 /\ smN' = n
                 /\ smPc' = "mask"
                 /\ smHist' = [smHist EXCEPT !.alloc = TRUE, !.io = TRUE, !.raw = smBuf']
                 /\ UNCHANGED smExit
    /\ UNCHANGED <<smBits, smByteCount, smCancelled, smOut>>
    /\ UNCHANGED notSM

\* extraBits := (8 - (*bits % 8)) % 8; if extraBits != 0 the last byte of buf
\* is masked, which panics on an empty buf; buf[:n] is printed.
main_MaskAndPrint ==
    /\ smPc = "mask"
    /\ IF ExtraBitsOf(smBits) # 0 /\ Len(smBuf) = 0
       THEN /\ Exit("panic")
            /\ smHist' = [smHist EXCEPT !.masked = TRUE]
            /\ UNCHANGED <<smBuf, smOut>>
       ELSE /\ smBuf' = MaskTrailingBits(smBuf, smBits)
            /\ smOut' = Append(smOut, SubSeq(smBuf', 1, smN))
            /\ smHist' = [smHist EXCEPT !.masked = @ \/ ExtraBitsOf(smBits) # 0]
            /\ smPc' = "wait"
            /\ UNCHANGED smExit
    /\ UNCHANGED <<smBits, smByteCount, smN, smCancelled>>
    /\ UNCHANGED notSM

\* select { case <-ctx.Done(): return; case <-ticker.C: }
main_Wait ==
    /\ smPc = "wait"
    /\ \/ /\ smCancelled
          /\ Exit("return")
       \/ /\ Len(smOut) < MaxSamples
          /\ smPc' = "ctxCheck"
          /\ UNCHANGED smExit
    /\ UNCHANGED <<smBits, smByteCount, smBuf, smN, smCancelled, smOut, smHist>>
    /\ UNCHANGED notSM

NextSM ==
    \/ main_Detect
    \/ main_FindDevice
    \/ main_OpenBitBabbler
    \/ main_Interrupt
    \/ main_CtxCheck
    \/ main_ReadRandom
    \/ main_MaskAndPrint
    \/ main_Wait

SpecSM == InitSM /\ [][NextSM]_vars

-----------------------------------------------------------------------------
(* The mode table (CaptureMode.GetBaudRate) and device discovery:             *)
(* getTrueRNGModel, EnumerateDevices and Detect of package truerng;           *)
(* hasBitBabblerVIDPID, Detect and EnumerateDevices of package bbusb (serial  *)
(* enumeration). Strings are sequences of characters.                         *)

LowerCase == <<"a", "b", "c", "d", "e", "f", "g", "h", "i", "j", "k", "l", "m", "n", "o", "p", "q", "r", "s", "t", "u", "v", "w", "x", "y", "z">>
UpperCase == <<"A", "B", "C", "D", "E", "F", "G", "H", "I", "J", "K", "L", "M", "N", "O", "P", "Q", "R", "S", "T", "U", "V", "W", "X", "Y", "Z">>

\* strings.ToUpper
ToUpper(str) ==
    [i \in 1..Len(str) |->
        IF \E k \in 1..Len(LowerCase) : LowerCase[k] = str[i]
        THEN UpperCase[CHOOSE k \in 1..Len(LowerCase) : LowerCase[k] = str[i]]
        ELSE str[i]]

\* strings.Contains
Contains(str, sub) ==
    \E i \in 0..(Len(str) - Len(sub)) : SubSeq(str, i + 1, i + Len(sub)) = sub

\* strings.HasPrefix
HasPrefix(str, pre) ==
    Len(str) >= Len(pre) /\ SubSeq(str, 1, Len(pre)) = pre

\* The literals of the two matchers.
Str04D8 == <<"0", "4", "D", "8">>
Str16D0 == <<"1", "6", "D", "0">>
Str0403 == <<"0", "4", "0", "3">>
StrF5FE == <<"F", "5", "F", "E">>
Str0AA0 == <<"0", "A", "A", "0">>
Str0AA2 == <<"0", "A", "A", "2">>
Str0AA4 == <<"0", "A", "A", "4">>
StrEBB5 == <<"E", "B", "B", "5">>
Str7840 == <<"7", "8", "4", "0">>
StrUsbPath == <<"u", "s", "b", ":", "0", "4", "0", "3", ":", "7", "8", "4", "0">>
StrTRUERNG == <<"T", "R", "U", "E", "R", "N", "G">>
StrBITBABBLER == <<"B", "I", "T", "B", "A", "B", "B", "L", "E", "R">>
StrBIT_BABBLER == <<"B", "I", "T", " ", "B", "A", "B", "B", "L", "E", "R">>
StrBB_ == <<"B", "B", " ">>
StrBB == <<"B", "B">>

\* What the system can report for a port. The enumerator fills the USB
\* fields of USB ports only.
VIDs == {Str04D8, <<"0", "4", "d", "8">>, Str16D0, Str0403}
PIDs == {StrF5FE, Str0AA0, <<"0", "a", "a", "2">>, Str0AA4, StrEBB5, <<"e", "b", "b", "5">>, Str7840}
Products == {<<>>, <<"T", "r", "u", "e", "R", "N", "G", "p", "r", "o">>, <<"F", "T", "2", "3", "2", "R">>, <<"B", "i", "t", "B", "a", "b", "b", "l", "e", "r", " ", "W", "h", "i", "t", "e">>}
SerialNumbers == {<<>>, <<"t", "r", "u", "e", "r", "n", "g", "0", "1">>, <<"B", "B", "0", "0", "0", "0", "0", "1">>}
PortNames == {<<"t", "t", "y", "A", "C", "M", "0">>, <<"T", "r", "u", "e", "R", "N", "G", "0">>}

USBPorts ==
    [IsUSB : {TRUE}, VID : VIDs, PID : PIDs, Product : Products,
     SerialNumber : SerialNumbers, Name : PortNames]
SerialPorts ==
    [IsUSB : {FALSE}, VID : {<<>>}, PID : {<<>>}, Product : {<<>>},
     SerialNumber : {<<>>}, Name : PortNames]
PortDetails == USBPorts \cup SerialPorts

\* The ports the enumerated lists are made of, and the lists.
ListedPorts ==
    {NilPort} \cup
    {q \in PortDetails :
        /\ q.VID \in {Str04D8, Str0403, <<>>}
        /\ q.PID \in {StrF5FE, Str7840, <<>>}
        /\ q.Product \in {<<>>, <<"T", "r", "u", "e", "R", "N", "G", "p", "r", "o">>}
        /\ q.SerialNumber \in {<<>>, <<"B", "B", "0", "0", "0", "0", "0", "1">>}
        /\ q.IsUSB => q.Name = <<"t", "t", "y", "A", "C", "M", "0">>}
MaxPorts == 2
PortLists == UNION { [1..n -> ListedPorts] : n \in 0..MaxPorts }

\* type DeviceModel int
DeviceModelUnknown == 0
DeviceModelTrueRNG == 1
DeviceModelTrueRNGpro == 2
DeviceModelTrueRNGproV2 == 3

\* Mutant: a fallback match is reported as the baseline model.
FallbackModel_Baseline == DeviceModelTrueRNG

\* return DeviceModelTrueRNGpro // Assume pro model for generic TrueRNG names
FallbackModel == DeviceModelTrueRNGpro

\* Mutant: the fallback rules are tried before the VID/PID table.
VidPidFirst_Reversed == FALSE

\* The VID/PID block precedes the fallback block.
VidPidFirst == TRUE

\* The VID/PID block of getTrueRNGModel: the model, or DeviceModelUnknown when
\* the block falls through.
VidPidModel(q) ==
    IF q.IsUSB
    THEN LET vid == ToUpper(q.VID)
             pid == ToUpper(q.PID)
         IN IF vid = Str04D8 /\ pid = StrF5FE THEN DeviceModelTrueRNG
            ELSE IF vid = Str16D0 /\ pid = Str0AA0 THEN DeviceModelTrueRNGpro
            ELSE IF vid = Str04D8 /\ pid = StrEBB5 THEN DeviceModelTrueRNGproV2
            ELSE IF vid = Str16D0 /\ (pid = Str0AA2 \/ pid = Str0AA4)
                 THEN DeviceModelTrueRNGpro
            ELSE DeviceModelUnknown
    ELSE DeviceModelUnknown

\* The fallback block of getTrueRNGModel.
NameModel(q) ==
    IF q.IsUSB /\ q.Product # <<>> /\ Contains(ToUpper(q.Product), StrTRUERNG)
    THEN FallbackModel
    ELSE IF q.IsUSB /\ q.SerialNumber # <<>>
            /\ Contains(ToUpper(q.SerialNumber), StrTRUERNG)
    THEN FallbackModel
    ELSE IF q.Name # <<>> /\ Contains(ToUpper(q.Name), StrTRUERNG)
    THEN FallbackModel
    ELSE DeviceModelUnknown

\* func getTrueRNGModel(p *enumerator.PortDetails) DeviceModel
getTrueRNGModel(q) ==
    IF q = NilPort THEN DeviceModelUnknown
    ELSE IF VidPidFirst
    THEN (IF VidPidModel(q) # DeviceModelUnknown THEN VidPidModel(q) ELSE NameModel(q))
    ELSE (IF NameModel(q) # DeviceModelUnknown THEN NameModel(q) ELSE VidPidModel(q))

\* func hasBitBabblerVIDPID(p *enumerator.PortDetails) bool
hasBitBabblerVIDPID(q) ==
    IF q = NilPort THEN FALSE
    ELSE IF q.IsUSB /\ ToUpper(q.VID) = Str0403 /\ ToUpper(q.PID) = Str7840 THEN TRUE
    ELSE IF q.IsUSB /\ q.Product # <<>>
            /\ LET productUpper == ToUpper(q.Product)
               IN \/ Contains(productUpper, StrBITBABBLER)
                  \/ Contains(productUpper, StrBIT_BABBLER)
                  \/ Contains(productUpper, StrBB_)
    THEN TRUE
    ELSE IF q.IsUSB /\ q.SerialNumber # <<>>
            /\ LET serialUpper == ToUpper(q.SerialNumber)
               IN HasPrefix(serialUpper, StrBB) \/ Contains(serialUpper, StrBITBABBLER)
    THEN TRUE
    ELSE FALSE

\* The loop of truerng.EnumerateDevices over ports, from index i on.
RECURSIVE AppendDevices(_, _, _)
AppendDevices(ports, i, devices) ==
    IF i > Len(ports) THEN devices
    ELSE LET q == ports[i] IN
         IF q = NilPort THEN AppendDevices(ports, i + 1, devices)
         ELSE IF getTrueRNGModel(q) # DeviceModelUnknown
         THEN AppendDevices(ports, i + 1,
                  Append(devices, [Port |-> q.Name, Model |-> getTrueRNGModel(q),
                                   Name |-> q.Product]))
         ELSE AppendDevices(ports, i + 1, devices)

\* func EnumerateDevices() ([]DeviceInfo, error)   (package truerng)
EnumerateDevices(ports, fails) ==
    IF fails THEN [called |-> TRUE, list |-> <<>>, err |-> "enumerating ports"]
    ELSE [called |-> TRUE, list |-> AppendDevices(ports, 1, <<>>), err |-> "nil"]

\* func Detect() (bool, error)   (package truerng)
Detect(ports, fails) ==
    LET r == EnumerateDevices(ports, fails)
    IN [called |-> TRUE, present |-> Len(r.list) > 0, err |-> r.err]

\* The loop of bbusb.EnumerateDevices (serial enumeration) over ports.
RECURSIVE bbAppendDevices(_, _, _)
bbAppendDevices(ports, i, devices) ==
    IF i > Len(ports) THEN devices
    ELSE LET q == ports[i] IN
         IF q = NilPort THEN bbAppendDevices(ports, i + 1, devices)
         ELSE IF hasBitBabblerVIDPID(q)
         THEN bbAppendDevices(ports, i + 1,
                  Append(devices, [DevicePath |-> q.Name, FriendlyName |-> q.Product]))
         ELSE bbAppendDevices(ports, i + 1, devices)

\* func EnumerateDevices() ([]DeviceInfo, error)   (package bbusb, serial enumeration)
bbEnumerateDevices(ports, fails) ==
    IF fails THEN [called |-> TRUE, list |-> <<>>, err |-> "enumerating ports"]
    ELSE [called |-> TRUE, list |-> bbAppendDevices(ports, 1, <<>>), err |-> "nil"]

\* The 0403:7840 devices libusb can list: none, one, or two of which either
\* may fail to open.
MaxUsb == 2
UsbLists == UNION { [1..n -> {"opens", "fails"}] : n \in 0..MaxUsb }

\* The serial port lists of the linux build, which reads the ports only after
\* libusb found nothing usable: the lists of at most MaxLinuxPorts ports.
MaxLinuxPorts == 1
LinuxPortLists == UNION { [1..n -> ListedPorts] : n \in 0..MaxLinuxPorts }

\* ctx.OpenDevices(filter) with the 0403:7840 filter: every listed device is
\* tried; the ones that open are returned, together with an error when one
\* did not open.
OpenDevices(usb) ==
    [devs |-> SelectSeq(usb, LAMBDA d : d = "opens"),
     err  |-> \E i \in 1..Len(usb) : usb[i] = "fails"]

\* func detectUSBViaLibusb() bool: the stub of the other builds returns
\* false; the linux build opens the first 0403:7840 device
\* (ctx.OpenDeviceWithVIDPID) and returns whether that worked.
detectUSBViaLibusb(os, usb) ==
    IF os # "linux" THEN FALSE
    ELSE Len(usb) > 0 /\ usb[1] = "opens"

\* func enumerateDevicesSerialFallback() ([]DeviceInfo, error): the serial
\* enumeration of the other builds.
enumerateDevicesSerialFallback(ports, fails) == bbEnumerateDevices(ports, fails)

\* func EnumerateDevices() ([]DeviceInfo, error)   (package bbusb, linux
\* build), from the local out as declared: one descriptor per device libusb
\* opened is appended, when OpenDevices returned no error; out is returned
\* when it is not empty, the serial fallback otherwise.
bbEnumerateDevicesLinux(declared, ports, fails, usb) ==
    LET r == OpenDevices(usb)
        out == IF r.err THEN declared
               ELSE declared \o [i \in 1..Len(r.devs) |->
                                    [DevicePath |-> StrUsbPath, FriendlyName |-> <<>>]]
    IN IF ~r.err /\ Len(out) > 0
       THEN [called |-> TRUE, list |-> out, err |-> "nil"]
       ELSE enumerateDevicesSerialFallback(ports, fails)

\* func Detect() (bool, error)   (package bbusb): true when
\* detectUSBViaLibusb() is, before any port is enumerated; otherwise the loop
\* over the serial ports returns true at the first port that matches.
bbDetect(ports, fails, os, usb) ==
    IF detectUSBViaLibusb(os, usb)
    THEN [called |-> TRUE, present |-> TRUE, err |-> "nil"]
    ELSE IF fails THEN [called |-> TRUE, present |-> FALSE, err |-> "enumerating ports"]
    ELSE [called |-> TRUE,
          present |-> \E i \in 1..Len(ports) :
                         ports[i] # NilPort /\ hasBitBabblerVIDPID(ports[i]),
          err |-> "nil"]

InitD ==
    /\ TrIdle
    /\ BBIdle
    /\ RRIdle
    /\ LCIdle
    /\ SMIdle
    /\ CMIdle
    /\ dFn \in {"GetBaudRate", "getTrueRNGModel", "truerng", "bbusb"}
    /\ capMode \in (IF dFn = "GetBaudRate" THEN CaptureModes ELSE {""})
    /\ portArg \in (IF dFn = "getTrueRNGModel" THEN PortDetails \cup {NilPort}
                                               ELSE {NilPort})
    /\ goos \in (IF dFn = "bbusb" THEN {"linux", "other"} ELSE {"other"})
    /\ sysPorts \in (IF goos = "linux" THEN LinuxPortLists
                     ELSE IF dFn \in {"truerng", "bbusb"} THEN PortLists ELSE {<<>>})
    /\ enumFails \in (IF dFn \in {"truerng", "bbusb"} THEN BOOLEAN ELSE {FALSE})
    /\ usbDevs \in (IF goos = "linux" THEN UsbLists ELSE {<<>>})
    /\ enumPc = "idle"
    /\ enumDevices = <<>>
    /\ dRes = NoResults

GetBaudRate_Call ==
    /\ dFn = "GetBaudRate" /\ dRes.baud = -1
    /\ dRes' = [dRes EXCEPT !.baud = GetBaudRate(capMode)]
    /\ UNCHANGED <<enumPc, enumDevices>>
    /\ UNCHANGED <<dFn, capMode, portArg, sysPorts, enumFails, goos, usbDevs>>
    /\ UNCHANGED notD

getTrueRNGModel_Call ==
    /\ dFn = "getTrueRNGModel" /\ dRes.model = -1
    /\ dRes' = [dRes EXCEPT !.model = getTrueRNGModel(portArg)]
    /\ UNCHANGED <<enumPc, enumDevices>>
    /\ UNCHANGED <<dFn, capMode, portArg, sysPorts, enumFails, goos, usbDevs>>
    /\ UNCHANGED notD

Detect_Call ==
    /\ dFn = "truerng" /\ enumPc = "idle" /\ ~dRes.detect.called
    /\ dRes' = [dRes EXCEPT !.detect = Detect(sysPorts, enumFails)]
    /\ UNCHANGED <<enumPc, enumDevices>>
    /\ UNCHANGED <<dFn, capMode, portArg, sysPorts, enumFails, goos, usbDevs>>
    /\ UNCHANGED notD

bbDetect_Call ==
    /\ dFn = "bbusb" /\ enumPc = "idle" /\ ~dRes.detect.called
    /\ dRes' = [dRes EXCEPT !.detect = bbDetect(sysPorts, enumFails, goos, usbDevs)]
    /\ UNCHANGED <<enumPc, enumDevices>>
    /\ UNCHANGED <<dFn, capMode, portArg, sysPorts, enumFails, goos, usbDevs>>
    /\ UNCHANGED notD

\* EnumerateDevices() is entered (package truerng), for the first or the second
\* time over the same system ports: `var devices []DeviceInfo` is a local of
\* the call and starts nil.
EnumerateDevices_Begin ==
    /\ dFn = "truerng"
    /\ enumPc = "idle" /\ ~dRes.again.called
    /\ enumPc' = "body"
    /\ enumDevices' = <<>>
    /\ UNCHANGED dRes
    /\ UNCHANGED <<dFn, capMode, portArg, sysPorts, enumFails, goos, usbDevs>>
    /\ UNCHANGED notD

\* The ports are listed, the loop appends the TrueRNG ports to devices, and
\* devices is returned; nil and the error when the listing fails.
EnumerateDevices_Return ==
    /\ dFn = "truerng"
    /\ enumPc = "body"
    /\ LET r == IF enumFails
            THEN [called |-> TRUE, list |-> <<>>, err |-> "enumerating ports"]
            ELSE [called |-> TRUE, list |-> AppendDevices(sysPorts, 1, enumDevices),
                  err |-> "nil"]
       IN /\ dRes' = IF dRes.devices.called THEN [dRes EXCEPT !.again = r]
                                            ELSE [dRes EXCEPT !.devices = r]
          /\ enumDevices' = r.list
    /\ enumPc' = "idle"
    /\ UNCHANGED <<dFn, capMode, portArg, sysPorts, enumFails, goos, usbDevs>>
    /\ UNCHANGED notD

\* Mutant: devices is not a fresh list of the call; what the earlier call left
\* in it is kept.
bbEnumerateDevices_Begin_KeepsDevices ==
    /\ dFn = "bbusb" /\ goos # "linux"
    /\ enumPc = "idle" /\ ~dRes.again.called
    /\ enumPc' = "body"
    /\ enumDevices' = enumDevices
    /\ UNCHANGED dRes
    /\ UNCHANGED <<dFn, capMode, portArg, sysPorts, enumFails, goos, usbDevs>>
    /\ UNCHANGED notD

\* EnumerateDevices() is entered (package bbusb, serial enumeration), for the
\* first or the second time over the same system ports:
\* `var devices []DeviceInfo` is a local of the call and starts nil.
bbEnumerateDevices_Begin ==
    /\ dFn = "bbusb" /\ goos # "linux"
    /\ enumPc = "idle" /\ ~dRes.again.called
    /\ enumPc' = "body"
    /\ enumDevices' = <<>>
    /\ UNCHANGED dRes
    /\ UNCHANGED <<dFn, capMode, portArg, sysPorts, enumFails, goos, usbDevs>>
    /\ UNCHANGED notD

\* The ports are listed, the loop appends the BitBabbler ports to devices, and
\* devices is returned; nil and the error when the listing fails.
bbEnumerateDevices_Return ==
    /\ dFn = "bbusb" /\ goos # "linux"
    /\ enumPc = "body"
    /\ LET r == IF enumFails
            THEN [called |-> TRUE, list |-> <<>>, err |-> "enumerating ports"]
            ELSE [called |-> TRUE, list |-> bbAppendDevices(sysPorts, 1, enumDevices),
                  err |-> "nil"]
       IN /\ dRes' = IF dRes.devices.called THEN [dRes EXCEPT !.again = r]
                                            ELSE [dRes EXCEPT !.devices = r]
          /\ enumDevices' = r.list
    /\ enumPc' = "idle"
    /\ UNCHANGED <<dFn, capMode, portArg, sysPorts, enumFails, goos, usbDevs>>
    /\ UNCHANGED notD

\* EnumerateDevices() is entered (package bbusb, linux build), for the first or
\* the second time over the same USB devices and system ports:
\* `var out []DeviceInfo` is a local of the call and starts nil.
bbEnumerateDevicesLinux_Begin ==
    /\ dFn = "bbusb" /\ goos = "linux"
    /\ enumPc = "idle" /\ ~dRes.again.called
    /\ enumPc' = "body"
    /\ enumDevices' = <<>>
    /\ UNCHANGED dRes
    /\ UNCHANGED <<dFn, capMode, portArg, sysPorts, enumFails, goos, usbDevs>>
    /\ UNCHANGED notD

\* The rest of the linux EnumerateDevices().
bbEnumerateDevicesLinux_Return ==
    /\ dFn = "bbusb" /\ goos = "linux"
    /\ enumPc = "body"
    /\ LET r == bbEnumerateDevicesLinux(enumDevices, sysPorts, enumFails, usbDevs)
       IN /\ dRes' = IF dRes.devices.called THEN [dRes EXCEPT !.again = r]
                                            ELSE [dRes EXCEPT !.devices = r]
          /\ enumDevices' = r.list
    /\ enumPc' = "idle"
    /\ UNCHANGED <<dFn, capMode, portArg, sysPorts, enumFails, goos, usbDevs>>
    /\ UNCHANGED notD

NextD ==
    \/ GetBaudRate_Call
    \/ getTrueRNGModel_Call
    \/ Detect_Call
    \/ bbDetect_Call
    \/ EnumerateDevices_Begin
    \/ EnumerateDevices_Return
    \/ bbEnumerateDevices_Begin
    \/ bbEnumerateDevices_Return
    \/ bbEnumerateDevicesLinux_Begin
    \/ bbEnumerateDevicesLinux_Return

SpecD == InitD /\ [][NextD]_vars

-----------------------------------------------------------------------------

Next ==
    \/ ReadBitsWithMode_Start
    \/ ReadBytesWithMode_FindPort
    \/ readBytesFromPort_Open
    \/ readBytesFromPort_Read
    \/ Cancel
    \/ CollectBitsAtIntervalWithMode_Start
    \/ CollectBitsAtIntervalWithMode_CtxCheck
    \/ CollectBitsAtIntervalWithMode_FindPort
    \/ CollectBitsAtIntervalWithMode_Open
    \/ CollectBitsAtIntervalWithMode_Read
    \/ CollectBitsAtIntervalWithMode_Deliver
    \/ CollectBitsAtIntervalWithMode_OnBatchReturn
    \/ CollectBitsAtIntervalWithMode_Tick
    \/ CollectBitsAtIntervalWithMode_WaitCancelled
    \/ CollectBitsAtIntervalWithReconnect_Start
    \/ CollectBitsAtIntervalWithReconnect_FindPort
    \/ CollectBitsAtIntervalWithReconnect_Connect
    \/ CollectBitsAtIntervalWithReconnect_CtxCheck
    \/ CollectBitsAtIntervalWithReconnect_Read
    \/ CollectBitsAtIntervalWithReconnect_AfterRead
    \/ CollectBitsAtIntervalWithReconnect_Refind
    \/ CollectBitsAtIntervalWithReconnect_Reconnect
    \/ CollectBitsAtIntervalWithReconnect_OnBatchReturn
    \/ CollectBitsAtIntervalWithReconnect_Tick
    \/ CollectBitsAtIntervalWithReconnect_WaitCancelled

Spec == Init /\ [][Next]_vars

-----------------------------------------------------------------------------
(* The two collection functions called with valid arguments, every call they  *)
(* make returning: a blocking read returns or its deadline passes               *)

\* Samples of one byte and of two bytes, the second with unused trailing bits.
CollectBitCounts == {8, 13}

InitCollect ==
    /\ prog \in {CS, CR}
    /\ mode \in Modes
    /\ bitCount \in CollectBitCounts
    /\ interval = 2
    /\ onBatch = "func"
    /\ pc = "start"
    /\ ret = "none"
    /\ data = <<>>
    /\ cancelled = FALSE
    /\ portName = ""
    /\ port = "nil"
    /\ buf = <<>>
    /\ total = 0
    /\ readAttempts = 0
    /\ readSuccessful = FALSE
    /\ consecutiveErrors = 0
    /\ zeroReads = 0
    /\ acquired = 0
    /\ delivered = <<>>
    /\ hist = HistInit
    /\ BBIdle
    /\ RRIdle
    /\ DIdle
    /\ LCIdle
    /\ SMIdle
    /\ CMIdle

NextCollect ==
    \/ Cancel
    \/ CollectBitsAtIntervalWithMode_Start
    \/ CollectBitsAtIntervalWithMode_CtxCheck
    \/ CollectBitsAtIntervalWithMode_FindPort
    \/ CollectBitsAtIntervalWithMode_Open
    \/ CollectBitsAtIntervalWithMode_Read
    \/ CollectBitsAtIntervalWithMode_Deliver
    \/ CollectBitsAtIntervalWithMode_OnBatchReturn
    \/ CollectBitsAtIntervalWithMode_Tick
    \/ CollectBitsAtIntervalWithMode_WaitCancelled
    \/ CollectBitsAtIntervalWithReconnect_Start
    \/ CollectBitsAtIntervalWithReconnect_FindPort
    \/ CollectBitsAtIntervalWithReconnect_Connect
    \/ CollectBitsAtIntervalWithReconnect_CtxCheck
    \/ CollectBitsAtIntervalWithReconnect_Read
    \/ CollectBitsAtIntervalWithReconnect_AfterRead
    \/ CollectBitsAtIntervalWithReconnect_Refind
    \/ CollectBitsAtIntervalWithReconnect_Reconnect
    \/ CollectBitsAtIntervalWithReconnect_OnBatchReturn
    \/ CollectBitsAtIntervalWithReconnect_Tick
    \/ CollectBitsAtIntervalWithReconnect_WaitCancelled

LiveCollect == InitCollect /\ [][NextCollect]_vars /\ WF_vars(NextCollect)

-----------------------------------------------------------------------------
(* CollectBitsAtIntervalWithReconnect on samples of maxReadAttempts bytes and *)
(* more, read from a device that sends the byte 0xA5 only and has at least    *)
(* one byte ready at every read                                               *)

\* Samples of exactly maxReadAttempts bytes, and of one byte more.
LongBitCounts == {8 * maxReadAttempts, 8 * maxReadAttempts + 8}

InitLong ==
    /\ prog = CR
    /\ mode = "MODE_NORMAL"
    /\ bitCount \in LongBitCounts
    /\ interval = 2
    /\ onBatch = "func"
    /\ pc = "start"
    /\ ret = "none"
    /\ data = <<>>
    /\ cancelled = FALSE
    /\ portName = ""
    /\ port = "nil"
    /\ buf = <<>>
    /\ total = 0
    /\ readAttempts = 0
    /\ readSuccessful = FALSE
    /\ consecutiveErrors = 0
    /\ zeroReads = 0
    /\ acquired = 0
    /\ delivered = <<>>
    /\ hist = HistInit
    /\ BBIdle
    /\ RRIdle
    /\ DIdle
    /\ LCIdle
    /\ SMIdle
    /\ CMIdle

\* One pass of the read loop on that device: no zero-byte read, 0xA5 only.
CollectBitsAtIntervalWithReconnect_ReadSteady ==
    /\ CollectBitsAtIntervalWithReconnect_Read
    /\ zeroReads' = 0
    /\ \A i \in 1..total' : buf'[i] = 165

NextLong ==
    \/ Cancel
    \/ CollectBitsAtIntervalWithReconnect_Start
    \/ CollectBitsAtIntervalWithReconnect_FindPort
    \/ CollectBitsAtIntervalWithReconnect_Connect
    \/ CollectBitsAtIntervalWithReconnect_CtxCheck
    \/ CollectBitsAtIntervalWithReconnect_ReadSteady
    \/ CollectBitsAtIntervalWithReconnect_AfterRead
    \/ CollectBitsAtIntervalWithReconnect_Refind
    \/ CollectBitsAtIntervalWithReconnect_Reconnect
    \/ CollectBitsAtIntervalWithReconnect_OnBatchReturn
    \/ CollectBitsAtIntervalWithReconnect_Tick
    \/ CollectBitsAtIntervalWithReconnect_WaitCancelled

SpecLong == InitLong /\ [][NextLong]_vars

-----------------------------------------------------------------------------
(* Every place that masks a sample: the one-shot read and the two collection  *)
(* loops of package truerng, and the sampler of cmd/bb                        *)

InitMask ==
    \/ Init
    \/ InitSM

NextMask ==
    \/ Next
    \/ NextSM

SpecMask == InitMask /\ [][NextMask]_vars

-----------------------------------------------------------------------------
(* The framing terms of the specification, stated without Go's operators *)

\* ceil(n / 8)
CeilBytes(n) == CHOOSE k \in 0..n : 8 * k >= n /\ 8 * (k - 1) < n

\* (8 - n mod 8) mod 8
UnusedBits(n) == (8 - (n % 8)) % 8

\* The low-order k bits of byte b are 0.
LowBitsZero(b, k) == b % Pow2(k) = 0

Collecting == prog \in {CS, CR}

-----------------------------------------------------------------------------
(* Claims *)

\* C1: for every bitCount > 0 a successful ReadBitsWithMode returns exactly
\* ceil(bitCount/8) bytes, and the low-order (8 - bitCount mod 8) mod 8 bits of
\* the last byte are 0.
C1_ReadBitsLengthAndMask ==
    (prog = RB /\ pc = "done" /\ ret = "ok") =>
        /\ bitCount > 0
        /\ Len(data) = CeilBytes(bitCount)
        /\ LowBitsZero(data[Len(data)], UnusedBits(bitCount))

\* 10 bits read as 0xFF 0xFF come back as 2 bytes, the second one 0xC0.
C1_Witness ==
    /\ prog = RB /\ pc = "done" /\ ret = "ok"
    /\ bitCount = 10
    /\ buf = <<255, 255>>
    /\ data = <<255, 192>>

\* C2: in both collection functions every buffer handed to the callback has
\* exactly ceil(bitCount/8) bytes, and the low-order (8 - bitCount mod 8) mod 8
\* bits of its last byte are 0.
C2_CallbackLengthAndMask ==
    (Collecting /\ pc = "callback") =>
        /\ Len(buf) = CeilBytes(bitCount)
        /\ LowBitsZero(buf[Len(buf)], UnusedBits(bitCount))

\* The reconnect loop hands over 13 bits read as 0xFF 0xFF: 0xFF 0xF8.
C2_Witness ==
    /\ prog = CR /\ pc = "callback"
    /\ bitCount = 13
    /\ buf = <<255, 248>>

\* C3: the collection functions called with bitCount <= 0, interval <= 0 or a
\* nil callback, and ReadBitsWithMode called with bitCount <= 0, return an error
\* at once: no discovery, open or read is performed, no callback is invoked.
C3_InvalidArgumentsNoIO ==
    (\/ Collecting /\ (bitCount <= 0 \/ interval <= 0 \/ onBatch = "nil")
     \/ prog = RB /\ bitCount <= 0) =>
        /\ pc \in {"start", "done"}
        /\ pc = "done" => ret = "errArg"
        /\ ~hist.ioDone
        /\ hist.openSess = 0
        /\ port = "nil"
        /\ delivered = <<>>

\* A reconnect collection with a valid bit count and callback but a negative
\* interval has returned the argument error.
C3_Witness ==
    /\ prog = CR /\ bitCount = 8 /\ interval = -1 /\ onBatch = "func"
    /\ pc = "done" /\ ret = "errArg"

\* C4: in either collection mode a sample whose read ended by timeout or read
\* error before ceil(bitCount/8) bytes arrived is never handed to the callback:
\* the callback gets only buffers every byte of which a read has stored.
C4_OnlyCompleteSamplesDelivered ==
    /\ (Collecting /\ pc = "callback") =>
          /\ hist.readEnd = "full"
          /\ total = Len(buf)
          /\ Len(buf) = CeilBytes(bitCount)
          /\ \A i \in 1..Len(buf) : buf[i] # 0
    /\ (Collecting /\ hist.readEnd \in {"timeout", "error", "attempts", "panic"}) =>
          pc # "callback"
    /\ Collecting => Len(delivered) <= acquired

\* A read of the reconnect loop has timed out with part of the sample stored.
C4_Witness ==
    /\ prog = CR /\ pc = "afterRead"
    /\ hist.readEnd = "timeout"
    /\ total > 0 /\ total < Len(buf)
    /\ Len(delivered) = 1

\* C5: in either collection mode the callback is invoked exactly once per
\* completed read, in acquisition order, no buffer twice, and no read is begun
\* before the callback of the previous sample has returned.
C5_DeliveredOnceInOrder ==
    Collecting =>
        /\ \A i \in 1..Len(delivered) : delivered[i] = i
        /\ acquired \in {Len(delivered), Len(delivered) + 1}
        /\ acquired = Len(delivered) + 1 => pc \in {"close", "afterRead"}
        /\ pc \in {"ctxCheck", "find", "open", "read", "refind", "reconnect"}
              => acquired = Len(delivered)

\* The second sample of a per-tick collection is being read after the first
\* callback returned.
C5_Witness ==
    /\ prog = CS /\ pc = "read" /\ total > 0
    /\ delivered = <<1>>

\* C6: per-tick collection cancelled while waiting for the next tick, after k
\* deliveries: exactly k samples are delivered in total, no discovery, open or
\* read follows, and the loop returns the cancellation error, also when the
\* tick wins the select.
C6_CancelWhileWaiting ==
    (prog = CS /\ hist.cancelPc = "wait") =>
        /\ Len(delivered) = hist.cancelK
        /\ ~hist.ioAfterCancel
        /\ hist.cbAfterCancel = 0
        /\ pc \in {"wait", "ctxCheck", "done"}
        /\ pc = "done" => ret = "ctxErr"

\* Cancelled after the first delivery while waiting; the tick won the select
\* and the loop is at its top.
C6_Witness ==
    /\ prog = CS /\ hist.cancelPc = "wait" /\ hist.cancelK = 1
    /\ pc = "ctxCheck"

\* C7: in reconnect collection a read failing with a "closed"/"broken pipe"
\* error is followed by exactly one close of the stale session and no delivery;
\* when rediscovery and reopen succeed, exactly one rediscovery and one reopen
\* precede the next read, which is issued on the open port.
C7_OneReconnectAfterDisconnect ==
    (prog = CR /\ hist.rc.pending) =>
        /\ hist.rc.closes = 1
        /\ ~hist.rc.cb
        /\ hist.rc.finds <= 1 /\ hist.rc.opens <= 1
        /\ hist.readEnd = "error"
        /\ pc \in {"afterRead", "refind", "reconnect", "ctxCheck", "read", "done"}
        /\ (pc = "read" /\ ~hist.rc.failed) =>
              /\ hist.rc.finds = 1 /\ hist.rc.opens = 1
              /\ port = "open"
              /\ hist.openSess = 1

\* After a disconnect error the loop has reconnected and is about to read.
C7_Witness ==
    /\ prog = CR /\ hist.rc.pending /\ ~hist.rc.failed
    /\ pc = "read" /\ port = "open"
    /\ Len(delivered) = 1

\* C8: in reconnect collection, maxConsecutiveErrors consecutive read errors
\* that are not disconnect errors, with no successful read between them,
\* terminate the loop with the too-many-consecutive-errors error.
C8_TooManyErrorsIsFatal ==
    (prog = CR /\ hist.errRun >= maxConsecutiveErrors) =>
        (pc = "done" /\ ret = "errTooMany")

\* C9: in per-tick collection the first device-not-found, open failure, read
\* error or read timeout ends the loop and is what the caller gets: no
\* discovery, open, read or callback follows it.
C9_FirstFailureIsReturned ==
    (prog = CS /\ hist.failSeen # "none") =>
        /\ pc = "done"
        /\ ret = (CASE hist.failSeen = "notFound" -> "errNotFound"
                    [] hist.failSeen = "open"     -> "errOpen"
                    [] hist.failSeen = "read"     -> "errRead"
                    [] hist.failSeen = "timeout"  -> "errTimeout")
        /\ ~hist.opAfterFail

\* The second tick of a per-tick collection timed out and the loop returned.
C9_Witness ==
    /\ prog = CS /\ hist.failSeen = "timeout"
    /\ delivered = <<1>>
    /\ pc = "done" /\ ret = "errTimeout"

\* Some try of the probe pair had both probes answered by the expected echo.
SyncAcked == \E p \in {1, 2} : {<<p, 170>>, <<p, 171>>} \subseteq bbHist.acks

\* C10: when within the retry budget no try of the probe pair gets both
\* expected 4-byte acknowledgements, OpenBitBabbler returns an error and a nil
\* session, and every resource it acquired has been released.
C10_SyncFailureReturnsNoSession ==
    (bbPc = "done" /\ bbHist.syncStarted /\ ~SyncAcked) =>
        /\ session = "nil"
        /\ bbErr = "syncFailed"
        /\ \A r \in Resources : ~res[r].held /\ res[r].closes = 1

\* Both tries had 0xAA acknowledged and 0xAB not: four probes, open failed.
C10_Witness ==
    /\ bbPc = "done" /\ bbErr = "syncFailed" /\ session = "nil"
    /\ bbHist.probes = 4
    /\ bbHist.acks = {<<1, 170>>, <<2, 170>>}

\* The resources OpenBitBabbler holds when the step named by its error failed.
AcquiredBefore(err) ==
    CASE err \in {"openDevice", "notFound"} -> {"ctx"}
      [] err = "config"                      -> {"ctx", "dev"}
      [] err = "interface"                   -> {"ctx", "dev", "cfg"}
      [] OTHER                               -> Resources

\* C11: a failure at any step of OpenBitBabbler returns an error and no
\* session with every resource acquired so far closed exactly once (and none
\* that was not acquired closed); on success, and while the open is running,
\* nothing has been closed and the session holds all four resources.
C11_FailedOpenReleasesOnce ==
    /\ (bbPc = "done" /\ bbErr # "nil") =>
          /\ session = "nil"
          /\ \A r \in Resources :
                /\ ~res[r].held
                /\ res[r].closes = (IF r \in AcquiredBefore(bbErr) THEN 1 ELSE 0)
    /\ (bbPc = "done" /\ bbErr = "nil") =>
          /\ session = "s"
          /\ \A r \in Resources : res[r].held /\ res[r].closes = 0
    /\ (bbPc \notin {"done", "idle", "closed"}) =>
          \A r \in Resources : res[r].closes = 0

\* The latency request failed after all four resources were acquired: each
\* has been closed once, the interface first and the context last.
C11_Witness ==
    /\ bbPc = "done" /\ bbErr = "latency" /\ session = "nil"
    /\ \A r \in Resources : ~res[r].held /\ res[r].closes = 1
    /\ res["intf"].at = 1 /\ res["ctx"].at = 4

\* C12: every serial port opened by the one-shot read or by a tick of the
\* per-tick collection is closed exactly once, after its last read: no session
\* is closed twice, none is left open at return, and the read loop never runs
\* on a port already closed.
C12_SessionClosedOnce ==
    (prog \in {RB, CS}) =>
        /\ ~hist.doubleClose
        /\ hist.openSess \in {0, 1}
        /\ pc = "done" => hist.openSess = 0
        /\ pc = "read" => port = "open"

\* C13: a collection (either mode, valid arguments) started with the
\* cancellation already signalled performs no discovery, open or read and
\* returns the cancellation error.
C13_CancelledAtStartNoIO ==
    (Collecting /\ hist.cancelPc = "start"
       /\ ~InvalidCollectArgs(bitCount, interval, onBatch)) =>
        /\ ~hist.ioAfterCancel
        /\ hist.openSess = 0
        /\ pc = "done" => ret = "ctxErr"

\* C14: every call of DeviceSession.ReadRandom returns, also when the device
\* keeps answering with packets that carry no payload.
C14_ReadRandomReturns == <>(rrPc = "done")

\* C15: DeviceSession.ReadRandom returns a nil error only together with the
\* full count len(buf); a read the deadline ended early is not reported as a
\* success.
C15_NilErrorMeansFull ==
    (rrPc = "done" /\ rrErr = "nil") =>
        /\ rrN = Len(rrBuf)
        /\ ~rrHist.timedOut

\* C16: GetBaudRate given a mode outside the ten defined ones tells its
\* caller: what it returns is not a usable (positive) baud rate.
C16_UnknownModeIsReported ==
    (dFn = "GetBaudRate" /\ dRes.baud # -1 /\ capMode \notin DefinedModes) =>
        dRes.baud <= 0

\* The table of the documentation (README, Supported Capture Modes).
DocumentedBaud ==
    [x \in DefinedModes |->
        CASE x = "MODE_NORMAL"          -> 300
          [] x = "MODE_PSDEBUG"         -> 1200
          [] x = "MODE_RNGDEBUG"        -> 2400
          [] x = "MODE_RNG1WHITE"       -> 4800
          [] x = "MODE_RNG2WHITE"       -> 9600
          [] x = "MODE_RAW_BIN"         -> 19200
          [] x = "MODE_RAW_ASC"         -> 38400
          [] x = "MODE_UNWHITENED"      -> 57600
          [] x = "MODE_NORMAL_ASC"      -> 115200
          [] x = "MODE_NORMAL_ASC_SLOW" -> 230400]

\* C17: each of the ten defined capture modes gets the positive baud rate the
\* documentation gives it, and two different modes never get the same rate.
C17_DefinedModesHaveDocumentedRates ==
    /\ (dFn = "GetBaudRate" /\ dRes.baud # -1 /\ capMode \in DefinedModes) =>
          /\ dRes.baud = DocumentedBaud[capMode]
          /\ dRes.baud > 0
    /\ (dFn = "GetBaudRate" /\ dRes.baud # -1) =>
          \A x \in DefinedModes :
              (x # capMode /\ capMode \in DefinedModes) => GetBaudRate(x) # dRes.baud

\* GetBaudRate has been called on ModeRawASC and returned 38400.
C17_Witness ==
    /\ dFn = "GetBaudRate"
    /\ capMode = "MODE_RAW_ASC"
    /\ dRes.baud = 38400

\* The fixed VID/PID table, and the matching rules, as the specification
\* states them.
VidPidTable ==
    { <<Str04D8, StrF5FE, DeviceModelTrueRNG>>,
      <<Str16D0, Str0AA0, DeviceModelTrueRNGpro>>,
      <<Str16D0, Str0AA2, DeviceModelTrueRNGpro>>,
      <<Str16D0, Str0AA4, DeviceModelTrueRNGpro>>,
      <<Str04D8, StrEBB5, DeviceModelTrueRNGproV2>> }

ExactVidPid(q) ==
    q.IsUSB /\ \E t \in VidPidTable : ToUpper(q.VID) = t[1] /\ ToUpper(q.PID) = t[2]

FamilyNameFound(q) ==
    \/ Contains(ToUpper(q.Product), StrTRUERNG)
    \/ Contains(ToUpper(q.SerialNumber), StrTRUERNG)
    \/ Contains(ToUpper(q.Name), StrTRUERNG)

\* C18: a port matched only by a fallback rule (family name in the product
\* string, the serial number or the port name, any letter case), not by its
\* VID/PID pair, is reported as a more capable model, never as Unknown or as
\* the baseline DeviceModelTrueRNG.
C18_FallbackIsNeverBaseline ==
    (dFn = "getTrueRNGModel" /\ dRes.model # -1 /\ portArg # NilPort
       /\ ~ExactVidPid(portArg) /\ FamilyNameFound(portArg)) =>
        dRes.model \in {DeviceModelTrueRNGpro, DeviceModelTrueRNGproV2}

\* A serial (non-USB) port named TrueRNG0 has been classified as TrueRNGpro.
C18_Witness ==
    /\ dFn = "getTrueRNGModel"
    /\ portArg # NilPort /\ ~portArg.IsUSB
    /\ portArg.Name = <<"T", "r", "u", "e", "R", "N", "G", "0">>
    /\ dRes.model = DeviceModelTrueRNGpro

\* C19: a USB port whose VID/PID pair (any letter case) is in the fixed table
\* gets the table's model whatever its product, serial and port-name strings
\* say; a port matching no rule is Unknown, and EnumerateDevices lists exactly
\* the ports that match some rule.
C19_VidPidTableWins ==
    /\ (dFn = "getTrueRNGModel" /\ dRes.model # -1 /\ portArg # NilPort) =>
          /\ \A t \in VidPidTable :
                (portArg.IsUSB /\ ToUpper(portArg.VID) = t[1]
                   /\ ToUpper(portArg.PID) = t[2]) => dRes.model = t[3]
          /\ (~ExactVidPid(portArg) /\ ~FamilyNameFound(portArg)) =>
                dRes.model = DeviceModelUnknown
    /\ (dFn = "truerng" /\ dRes.devices.called /\ dRes.devices.err = "nil") =>
          Len(dRes.devices.list) =
              Cardinality({i \in 1..Len(sysPorts) :
                              /\ sysPorts[i] # NilPort
                              /\ ExactVidPid(sysPorts[i]) \/ FamilyNameFound(sysPorts[i])})

\* A port 04d8:ebb5 (lower case) whose product string says TrueRNGpro has been
\* classified by the table: TrueRNGproV2.
C19_Witness ==
    /\ dFn = "getTrueRNGModel"
    /\ portArg # NilPort /\ portArg.IsUSB
    /\ portArg.VID = <<"0", "4", "d", "8">> /\ portArg.PID = <<"e", "b", "b", "5">>
    /\ portArg.Product = <<"T", "r", "u", "e", "R", "N", "G", "p", "r", "o">>
    /\ dRes.model = DeviceModelTrueRNGproV2

\* No listed port is a device of the family the functions applied look for.
NoPortMatches ==
    \A i \in 1..Len(sysPorts) :
        \/ sysPorts[i] = NilPort
        \/ dFn = "truerng" /\ getTrueRNGModel(sysPorts[i]) = DeviceModelUnknown
        \/ dFn = "bbusb" /\ ~hasBitBabblerVIDPID(sysPorts[i])

\* No serial port matches, and libusb lists no 0403:7840 device either.
NoDeviceMatches == NoPortMatches /\ usbDevs = <<>>

\* C20: over the same ports and USB devices Detect returns true exactly when
\* EnumerateDevices returns a non-empty list; when no port or device matches,
\* Detect returns false and EnumerateDevices an empty list, both with a nil
\* error.
C20_DetectAgreesWithEnumerate ==
    (dFn \in {"truerng", "bbusb"}) =>
        /\ (dRes.detect.called /\ dRes.devices.called) =>
              (dRes.detect.present <=> Len(dRes.devices.list) > 0)
        /\ (dRes.detect.called /\ NoDeviceMatches /\ ~enumFails) =>
              ~dRes.detect.present /\ dRes.detect.err = "nil"
        /\ (dRes.devices.called /\ NoDeviceMatches /\ ~enumFails) =>
              dRes.devices.list = <<>> /\ dRes.devices.err = "nil"

\* Linux build, libusb opens the first BitBabbler and not the second, no
\* serial port matches: Detect returned true and EnumerateDevices no device.
C20_DetectTrueEnumerateEmpty ==
    /\ dFn = "bbusb" /\ goos = "linux"
    /\ usbDevs = <<"opens", "fails">>
    /\ NoPortMatches /\ ~enumFails
    /\ dRes.detect.called /\ dRes.detect.present /\ dRes.detect.err = "nil"
    /\ dRes.devices.called /\ dRes.devices.list = <<>> /\ dRes.devices.err = "nil"

\* C20 on every build and device list but the linux build with a BitBabbler
\* that opens and another that does not: there Detect and EnumerateDevices
\* agree.
C20_AgreeUnlessPartialOpen ==
    (goos = "linux" /\ detectUSBViaLibusb(goos, usbDevs) /\ OpenDevices(usbDevs).err)
        \/ C20_DetectAgreesWithEnumerate

\* A nil entry and then a TrueRNG port: Detect returned true and
\* EnumerateDevices one device.
C20_Witness ==
    /\ dFn = "truerng"
    /\ Len(sysPorts) = 2 /\ sysPorts[1] = NilPort
    /\ dRes.detect.called /\ dRes.detect.present
    /\ dRes.devices.called /\ Len(dRes.devices.list) = 1

\* Linux build, libusb opens the one BitBabbler, no serial port matches:
\* Detect returned true and EnumerateDevices the usb descriptor.
C20_LibusbWitness ==
    /\ dFn = "bbusb" /\ goos = "linux"
    /\ usbDevs = <<"opens">> /\ NoPortMatches
    /\ dRes.detect.called /\ dRes.detect.present
    /\ dRes.devices.called /\ Len(dRes.devices.list) = 1
    /\ dRes.devices.list[1].DevicePath = StrUsbPath

\* C21: two consecutive EnumerateDevices calls over the same list of system
\* ports return equal results (the same descriptors in the same order, the
\* same error), and nothing of the first call is carried into the second:
\* the list a call builds is empty when its body starts.
C21_EnumerateTwiceSameList ==
    (dFn \in {"truerng", "bbusb"}) =>
        /\ dRes.again.called =>
              /\ dRes.devices.called
              /\ dRes.again.list = dRes.devices.list
              /\ dRes.again.err = dRes.devices.err
        /\ enumPc = "body" => enumDevices = <<>>

\* bbusb.EnumerateDevices (serial enumeration) has run twice over two
\* BitBabbler ports: two descriptors each time.
C21_Witness ==
    /\ dFn = "bbusb" /\ goos # "linux"
    /\ enumPc = "idle"
    /\ dRes.devices.called /\ dRes.again.called
    /\ Len(dRes.devices.list) = 2
    /\ Len(dRes.again.list) = 2

\* C22: DeviceSession.Close on an open session releases the interface, then
\* the device, then the context (each exactly once, the configuration
\* between interface and device), whichever of the releases fail, and changes
\* nothing the caller sees as an error; on the nil session of a failed open it
\* releases nothing.
C22_CloseReleasesInOrder ==
    (bbPc = "closed") =>
        /\ session = "s" =>
              /\ bbErr = "nil"
              /\ \A r \in Resources : ~res[r].held /\ res[r].closes = 1
              /\ res["intf"].at = 1
              /\ res["intf"].at < res["dev"].at
              /\ res["dev"].at < res["ctx"].at
              /\ res["ctx"].at = 4
        /\ session = "nil" =>
              /\ bbErr # "nil"
              /\ bbHist.closeErrs = {}
              /\ \A r \in Resources :
                    res[r].closes = (IF r \in AcquiredBefore(bbErr) THEN 1 ELSE 0)

\* Close on an open session whose configuration and device releases both
\* failed: the context has been released all the same, last.
C22_Witness ==
    /\ bbPc = "closed" /\ session = "s"
    /\ bbHist.closeErrs = {"cfg", "dev"}
    /\ res["ctx"].closes = 1 /\ res["ctx"].at = 4

\* C23: whatever CaptureMode ReadBitsWithMode, CollectBitsAtIntervalWithMode
\* or CollectBitsAtIntervalWithReconnect is given, no serial.Open of the knock
\* sequence (110, 300, 110 baud, then the baud rate of the mode) is made and
\* no open sets a baud rate: every serial.Open leaves BaudRate at 0.
C23_ModeSwitchDisabled ==
    (prog \in {RB, CS, CR}) =>
        /\ hist.bauds \subseteq {0}
        /\ hist.openSess > 0 => hist.bauds = {0}

\* A reconnect collection called with ModeRawBin (19200 baud) has opened its
\* port and delivered a sample.
C23_Witness ==
    /\ prog = CR /\ mode = "MODE_RAW_BIN"
    /\ pc = "callback" /\ port = "open"
    /\ hist.bauds = {0}

\* C24: in reconnect collection a read is issued only on an open session:
\* after a reconnection attempt that failed (device not found, or the reopen
\* failed) the loop does not come to its read with no port, and port.Read is
\* never called on the nil port.
C24_ReadOnlyOnOpenSession ==
    (prog = CR) =>
        /\ pc = "read" => port = "open"
        /\ hist.readEnd # "panic"
        /\ ret # "panic"

\* C25: in reconnect collection the read of a sample ends only when the full
\* byte count has arrived, when the deadline has passed or when a read call
\* has failed: a read in which every call returns bytes is completed, however
\* many calls it takes.
C25_ReadEndsByCountDeadlineOrError ==
    (prog = CR /\ pc = "afterRead" /\ zeroReads = 0) =>
        hist.readEnd \in {"full", "timeout", "error"}

\* C26: in reconnect collection at most one serial session is open at any
\* time, none is open while the device is rediscovered and reopened, no
\* session is closed twice, and none is open once the function has returned.
C26_OneSessionAtATime ==
    (prog = CR) =>
        /\ hist.openSess \in {0, 1}
        /\ hist.openSess = 1 <=> port = "open"
        /\ pc \in {"find0", "connect0", "refind", "reconnect"} => hist.openSess = 0
        /\ ~hist.doubleClose
        /\ pc = "done" => hist.openSess = 0

\* After a failed read and a reconnection a sample was delivered; cancelled
\* while waiting, the function has returned with its second session closed.
C26_Witness ==
    /\ prog = CR /\ pc = "done" /\ ret = "ctxErr"
    /\ hist.failSeen = "read"
    /\ Len(delivered) = 1
    /\ port = "closed" /\ hist.openSess = 0

\* How the read loop of a sample ends when it does not fill the buffer.
ShortReadEnds == {"error", "timeout", "attempts"}

\* C27: in reconnect collection the session opened at start serves every
\* tick: no discovery and no open follows the initial connection unless the
\* read of some sample has ended short of the full count (read error, timeout,
\* or the read loop giving up), and the reconnect block is entered only right
\* after such a read.
C27_SessionReusedAcrossTicks ==
    (prog = CR) =>
        /\ hist.reopened => hist.sampleFailed
        /\ pc \in {"refind", "reconnect"} => hist.readEnd \in ShortReadEnds
        /\ (~hist.sampleFailed /\ pc \in {"ctxCheck", "read", "afterRead",
                                          "callback", "wait"}
              /\ hist.readEnd \in {"none", "full"}) => port = "open"

\* Two samples have been delivered from the session opened at start.
C27_Witness ==
    /\ prog = CR /\ pc = "callback"
    /\ Len(delivered) = 2
    /\ ~hist.reopened /\ ~hist.sampleFailed
    /\ port = "open" /\ hist.openSess = 1

\* The events of a tick of the per-tick loop, in the order of the
\* specification; the wait follows the callback's return.
TickOrder == <<"find", "open", "read", "close", "callback">>

\* s is an initial part of t.
IsPrefix(s, t) == Len(s) <= Len(t) /\ \A i \in 1..Len(s) : s[i] = t[i]

\* The tick whose input flush failed: its port was closed right after the
\* open, so its read can only fail and it delivers nothing (see C12).
FlushFailedTick ==
    /\ IsPrefix(<<"find", "open", "close">>, hist.tick.events)
    /\ \A i \in 1..Len(hist.tick.events) : hist.tick.events[i] # "callback"

\* What a tick that reaches the callback or the wait has done, and what a
\* tick in progress has found.
TickDelivers ==
    /\ pc \in {"callback", "wait"} =>
          /\ hist.tick.events = TickOrder
          /\ hist.tick.found \in Ports
          /\ hist.tick.opened = hist.tick.found
          /\ port = "closed"
          /\ hist.openSess = 0
    /\ pc \in {"open", "read", "close"} =>
          /\ hist.tick.events # <<>>
          /\ hist.tick.events[1] = "find"
          /\ hist.tick.found = portName

\* C28: in every tick of the per-tick collection discovery, open, read, close
\* and callback happen in this order, each at most once; the tick that
\* reaches the callback and the wait has made all five, the port opened is
\* the one this tick's discovery returned, and the port is closed, with no
\* session open, when the callback is invoked.
C28_TickOrder ==
    (prog = CS) =>
        /\ IsPrefix(hist.tick.events, TickOrder)
        /\ TickDelivers

\* The input flush of the tick failed: the port was closed right after the
\* open, the read on the closed port failed and the port was closed again.
C28_ClosedBeforeRead ==
    /\ prog = CS /\ pc = "done" /\ ret = "errRead"
    /\ hist.tick.events = <<"find", "open", "close", "read", "close">>
    /\ hist.tick.opened = hist.tick.found

\* Every tick but the one whose input flush failed keeps the order, and every
\* tick that reaches the callback has made the five events in order.
C28_TickOrderUnlessFlushFailed ==
    (prog = CS) =>
        /\ IsPrefix(hist.tick.events, TickOrder) \/ FlushFailedTick
        /\ TickDelivers

\* The second tick found the device on another port than the first, opened
\* that port, read, closed, and is in the callback.
C28_Witness ==
    /\ prog = CS /\ pc = "callback"
    /\ Len(delivered) = 2
    /\ hist.tick.events = TickOrder
    /\ hist.tick.opened = "/dev/ttyACM1"
    /\ port = "closed"

\* The signal came while no sample was being acquired: in the callback, in
\* the wait for the tick, or at the top of the loop.
CancelledBetweenSamples == hist.cancelPc \in {"callback", "wait", "ctxCheck"}

\* Where a collection loop can be after the delivery of a sample and before
\* the discovery, open or read of the next.
AfterDelivery == {"callback", "wait", "ctxCheck", "done"}

\* Once cancellation is signalled at most one more sample is delivered, and
\* after that delivery, or when the signal came between samples, no
\* discovery, open or read is started.
CancelStopsCollection ==
    (Collecting /\ cancelled) =>
        /\ hist.cbAfterCancel <= 1
        /\ Len(delivered) <= hist.cancelK + 1
        /\ hist.cbAfterCancel = 1 => pc \in AfterDelivery
        /\ CancelledBetweenSamples =>
              /\ hist.cbAfterCancel = 0
              /\ ~hist.ioAfterCancel
              /\ pc \in AfterDelivery
              /\ pc = "done" => ret = "ctxErr"

\* C29: once cancellation is signalled, either collection loop delivers at
\* most one further sample (the one being acquired when the signal came),
\* starts no read of a later tick, and returns.
C29_CancelEndsCollection ==
    /\ []CancelStopsCollection
    /\ (Collecting /\ cancelled) ~> (pc = "done")

\* Cancelled during the read of the second sample of a reconnect collection:
\* that sample has been delivered and the function has returned the
\* cancellation error.
C29_Witness ==
    /\ prog = CR /\ hist.cancelPc = "read" /\ hist.cancelK = 1
    /\ Len(delivered) = 2 /\ hist.cbAfterCancel = 1
    /\ pc = "done" /\ ret = "ctxErr"

\* C30: the one-shot read ends in exactly one of three ways. With no timeout
\* and no failing read call it returns the full ceil(bitCount/8) bytes, every
\* one of them read; when the deadline passes first it returns the timeout
\* error and no data; at the first read call that fails it returns that error
\* and no data, and makes no further call. A read of zero bytes is none of
\* the failures: the loop goes on.
C30_OneShotReadEnds ==
    (prog = RB /\ pc = "done" /\ hist.readEnd # "none") =>
        /\ hist.failSeen = "none" =>
              /\ ret = "ok" /\ hist.readEnd = "full"
              /\ Len(data) = CeilBytes(bitCount)
              /\ total = Len(data)
        /\ hist.failSeen = "timeout" =>
              /\ ret = "errTimeout" /\ hist.readEnd = "timeout"
              /\ data = <<>>
              /\ total < Len(buf)
        /\ hist.failSeen = "read" =>
              /\ ret = "errRead" /\ hist.readEnd = "error"
              /\ data = <<>>
        /\ hist.failSeen \in {"none", "timeout", "read"}
        /\ ~hist.opAfterFail
        /\ port = "closed" /\ hist.openSess = 0

\* A read of two bytes that got a zero-byte read on its way has returned both
\* bytes.
C30_Witness ==
    /\ prog = RB /\ pc = "done" /\ ret = "ok"
    /\ hist.zeroSeen
    /\ Len(data) = 2
    /\ hist.failSeen = "none"

\* C31: a successful Linux ReadRandom of N bytes leaves in buf exactly the
\* first N payload bytes of the bulk-IN stream, in the order the device sent
\* them: the 2 status bytes of every max-packet-size packet are dropped, reads
\* and packets of 2 bytes or fewer add nothing, and no status byte (0 in the
\* model; payload bytes are numbered from 1) is ever in buf. While the call
\* runs, buf[1..got] is that prefix of the payload and the rest is untouched.
C31_PayloadOnlyInOrder ==
    (rrImpl = "linux" /\ rrPc \in {"read", "done"}) =>
        /\ \A i \in 1..Len(rrBuf) : rrBuf[i] = (IF i <= got THEN i ELSE 0)
        /\ got <= rrStream
        /\ (rrPc = "done" /\ rrErr = "nil") =>
              /\ rrN = Len(rrBuf) /\ got = rrN
              /\ \A i \in 1..Len(rrBuf) : rrBuf[i] = i

\* Three bytes were read from packets of one payload byte each, with a read
\* that carried status bytes only among the reads.
C31_Witness ==
    /\ rrImpl = "linux" /\ rrPc = "done" /\ rrErr = "nil"
    /\ rrN = 3 /\ maxPacket = 3
    /\ rrBuf = <<1, 2, 3>>
    /\ rrHist.statusReads = 1

\* OpenBitBabbler has gone past the synchronization check.
SyncPassed ==
    \/ bbPc \in {"clock", "purgeRead2"}
    \/ bbPc \in {"done", "closed"} /\ bbErr \in {"nil", "clock"}

\* C32: OpenBitBabbler goes past the synchronization check only if, in the
\* first try of the probe pair or in the one retry, probe 0xAA and then probe
\* 0xAB were each answered by a 4-byte response with 0xFA as 3rd byte and the
\* probe as 4th byte; no response of another length or content counts. The
\* pair is tried at most twice, and the open fails for want of
\* synchronization only after the second try.
C32_SyncNeedsBothEchoes ==
    /\ SyncPassed =>
          /\ SyncAcked
          /\ {<<syncPass, 170>>, <<syncPass, 171>>} \subseteq bbHist.acks
    /\ syncPass \in 0..2
    /\ bbHist.probes <= 4
    /\ \A a \in bbHist.acks : a[1] \in {1, 2} /\ a[2] \in {170, 171}
    /\ \A p \in {1, 2} : <<p, 171>> \in bbHist.acks => <<p, 170>> \in bbHist.acks
    /\ bbErr = "syncFailed" =>
          /\ syncPass = 2
          /\ bbHist.probes \in 2..4
          /\ ~SyncAcked

\* The first try lost its 0xAA probe; the retry had both probes echoed and the
\* session was returned.
C32_Witness ==
    /\ bbPc = "done" /\ session = "s" /\ bbErr = "nil"
    /\ syncPass = 2
    /\ bbHist.probes = 3
    /\ bbHist.acks = {<<2, 170>>, <<2, 171>>}

\* C33: the clock divisor OpenBitBabbler programs for the bitrate in force
\* (the requested one, or 2,500,000 when 0 was requested) is
\* floor(30,000,000 / bitrate) - 1: a value of 0..65535 that was neither
\* wrapped around below zero nor cut to its low 16 bits.
C33_DivisorIsExact ==
    clkDiv # -1 =>
        /\ bitrate > 0
        /\ clkDiv = (30000000 \div bitrate) - 1
        /\ clkDiv \in 0..65535

\* The number of bytes an MPSSE data-in command asks for: its two length bytes
\* are the low and the high byte of that number minus one.
RequestedBytes(cmd) == cmd[1] + 256 * cmd[2] + 1

\* C34: for every buffer length N >= 1 the command ReadRandom writes asks the
\* device for exactly N bytes, the number of bytes its read loop then waits
\* for.
C34_CommandAsksForWant ==
    lcCmd # <<>> =>
        /\ lcWant = lcLen
        /\ RequestedBytes(lcCmd) = lcWant

\* C35: when purgeRead returns, the IN endpoint has been drained: the last of
\* its reads, of which there are at most 10, returned an empty packet (2 bytes
\* or fewer); and purgeRead never makes the open fail.
C35_PurgeDrains ==
    /\ bbPc \in {"purgeRead", "purgeRead2"} => loopI < purgeReads
    /\ bbHist.purge # "none" => bbHist.purge = "empty"
    /\ bbErr # "purgeRead"

\* The baud rates of a complete knock sequence for the mode.
KnockBauds == <<110, 300, 110, GetBaudRate(cmMode)>>

\* C36: changeMode opens the port at 110, 300, 110 and then at the baud rate
\* of the target mode, in that order, and closes each port before it opens
\* the next. If an open fails, changeMode returns an error at once: that open
\* is the last one it attempted. It returns nil only after all four opens.
C36_KnockSequenceInOrder ==
    /\ IsPrefix(cmHist.attempts, KnockBauds)
    /\ ~cmHist.overlap
    /\ cmHist.open \in {0, 1}
    /\ cmHist.failedAt # 0 =>
          /\ cmHist.failedAt = Len(cmHist.attempts)
          /\ cmPc = "done"
          /\ cmErr \in {"errKnockOpen", "errFinalOpen"}
    /\ cmPc = "done" =>
          /\ cmHist.open = 0
          /\ cmErr = "nil" <=> cmHist.failedAt = 0
          /\ cmErr = "nil" => cmHist.attempts = KnockBauds

\* The second knock could not open the port: changeMode returned the error
\* after the opens at 110 and 300, and made no other.
C36_Witness ==
    /\ cmPc = "done" /\ cmErr = "errKnockOpen"
    /\ cmMode = "MODE_RAW_BIN"
    /\ cmHist.attempts = <<110, 300>>
    /\ cmHist.failedAt = 2

\* C38: the sampler started with a non-positive bit count makes no discovery,
\* open or read, never allocates, masks or indexes a sample buffer, prints
\* nothing and does not panic: the argument is refused first.
C38_NonPositiveBitsRefused ==
    (smPc # "idle" /\ smBits <= 0) =>
        /\ ~smHist.io
        /\ ~smHist.alloc
        /\ ~smHist.masked
        /\ smOut = <<>>
        /\ smExit # "panic"

\* out is raw, or the first bytes of raw, with nothing changed but the
\* low-order (8 - bits mod 8) mod 8 bits of the last byte of raw, which are 0.
MaskedPrefix(raw, out, bits) ==
    /\ Len(out) <= Len(raw)
    /\ \A i \in 1..Len(out) :
         out[i] = IF i = Len(raw)
                  THEN raw[i] - (raw[i] % Pow2(UnusedBits(bits)))
                  ELSE raw[i]
    /\ bits % 8 = 0 => out = SubSeq(raw, 1, Len(out))

\* C37: what is delivered differs from what was read from the device in
\* nothing but the low-order (8 - bitCount mod 8) mod 8 bits of the final
\* byte, and not at all when bitCount is a multiple of 8. This holds alike for
\* the slice ReadBitsWithMode returns, the buffer both collection loops hand
\* to the callback and the bytes the cmd/bb sampler prints.
C37_MaskTouchesOnlyTrailingBits ==
    /\ (prog = RB /\ pc = "done" /\ ret = "ok") =>
          /\ Len(data) = Len(buf)
          /\ MaskedPrefix(buf, data, bitCount)
    /\ (Collecting /\ pc = "callback") =>
          /\ Len(buf) = Len(hist.raw)
          /\ MaskedPrefix(hist.raw, buf, bitCount)
    /\ (smPc = "wait" /\ smBits > 0) =>
          /\ Len(smOut[Len(smOut)]) = smN
          /\ MaskedPrefix(smHist.raw, smOut[Len(smOut)], smBits)

\* The sampler read 13 bits as 0xA5 0xFF and printed 0xA5 0xF8.
C37_Witness ==
    /\ smPc = "wait" /\ smBits = 13
    /\ smHist.raw = <<165, 255>>
    /\ smOut = <<(<<165, 248>>)>>

\* C39: throughout the Linux ReadRandom, 0 <= got <= len(buf); every copy
\* takes at least one byte, reads tmp only inside the m bytes the bulk read
\* returned, past the 2 status bytes of its packet, and writes buf only
\* inside buf; m never exceeds len(tmp); and the loop is left as soon as
\* got = len(buf).
C39_CopiesStayInBounds ==
    (rrImpl = "linux" /\ rrPc \in {"read", "done"}) =>
        /\ maxPacket >= 3
        /\ 0 <= got /\ got <= Len(rrBuf)
        /\ rrHist.m <= TmpLen(Len(rrBuf), maxPacket)
        /\ \A c \in rrHist.copies :
              /\ c.len >= 1
              /\ c.src >= 2 /\ c.src + c.len <= rrHist.m
              /\ c.dst >= 0 /\ c.dst + c.len <= Len(rrBuf)
        /\ rrPc = "read" => got < want /\ want = Len(rrBuf)
        /\ (rrPc = "done" /\ rrErr = "nil") => got = Len(rrBuf) /\ rrN = got

\* One bulk read of 8 bytes with packets of 4 filled a 3-byte buffer by two
\* copies, the second cut down to the one byte still missing.
C39_Witness ==
    /\ rrImpl = "linux" /\ rrPc = "done" /\ rrErr = "nil"
    /\ maxPacket = 4 /\ Len(rrBuf) = 3
    /\ rrHist.m = 8
    /\ rrHist.copies = {[src |-> 2, dst |-> 0, len |-> 2], [src |-> 6, dst |-> 2, len |-> 1]}

====
